---- MODULE Spec2Model ----
(***************************************************************************)
(* A model of the TRCF streaming anomaly detector (beshu-tech/trcf-ts):    *)
(* decayed estimator, thresholder, corrector, preprocessor, the two tree   *)
(* ensembles and the orchestrator.                                         *)
(*                                                                         *)
(* Numbers.  The program computes in IEEE doubles.  The model computes in  *)
(* fixed point: a model number x stands for the real x / Scale.  NaN is a  *)
(* value of its own and propagates as in JavaScript (arithmetic on NaN is  *)
(* NaN, every comparison with NaN is false, Math.max / Math.min of NaN is  *)
(* NaN).  Rounding of the last fixed-point digit replaces the rounding of  *)
(* the last bit of a double.                                               *)
(***************************************************************************)
EXTENDS Integers, Sequences, FiniteSets, TLC

----------------------------------------------------------------------------
(* Fixed-point arithmetic with NaN *)

Scale == 100 * 100

NaN == 0 - 2000000000

IsNaN(x) == x = NaN

\* An operator's argument is evaluated where the operator first uses it, which
\* may be deep inside a recursion.  `CASE Computed(v) -> e` evaluates v before e.
Computed(v) == v = v

Abs(x) == IF x < 0 THEN 0 - x ELSE x

Sign(x) == IF x < 0 THEN 0 - 1 ELSE 1

\* One digit d of the long multiplication below; h = <<q, r>> for the higher
\* digits.
MulDivDigit(h, a, d, c, radix) ==
  CASE Computed(h) ->
  <<radix * h[1] + (radix * h[2] + a * d) \div c, (radix * h[2] + a * d) % c>>

\* <<q, r>> with a * b = q * c + r and 0 <= r < c, for 0 <= a < c, b >= 0,
\* computed digit by digit of b so that no intermediate overflows.
RECURSIVE MulDivQR(_, _, _, _)
MulDivQR(a, b, c, radix) ==
  IF b = 0 THEN <<0, 0>>
  ELSE MulDivDigit(MulDivQR(a, b \div radix, c, radix), a, b % radix, c, radix)

\* floor(a * b / c) for a, b >= 0 and c > 0; hexadecimal digits while 31 * c
\* fits the integer width, binary digits above
MulDivNat(a, b, c) ==
  IF a < 46341 /\ b < 46341 THEN (a * b) \div c
  ELSE (a \div c) * b + MulDivQR(a % c, b, c, IF c <= 2 ^ 26 THEN 16 ELSE 2)[1]

\* a * b / c, rounded toward zero
MulDiv(a, b, c) ==
  Sign(a) * Sign(b) * Sign(c) * MulDivNat(Abs(a), Abs(b), Abs(c))

FAdd(a, b) == IF IsNaN(a) \/ IsNaN(b) THEN NaN ELSE a + b

FSub(a, b) == IF IsNaN(a) \/ IsNaN(b) THEN NaN ELSE a - b

FMul(a, b) == IF IsNaN(a) \/ IsNaN(b) THEN NaN ELSE MulDiv(a, b, Scale)

\* 0 / 0 is NaN.  No modelled path divides a non-zero number by zero.
FDiv(a, b) ==
  IF IsNaN(a) \/ IsNaN(b) THEN NaN
  ELSE IF b = 0 /\ a = 0 THEN NaN
  ELSE MulDiv(a, Scale, b)

FLt(a, b) == ~IsNaN(a) /\ ~IsNaN(b) /\ a < b

FLe(a, b) == ~IsNaN(a) /\ ~IsNaN(b) /\ a <= b

FGt(a, b) == ~IsNaN(a) /\ ~IsNaN(b) /\ a > b

FGe(a, b) == ~IsNaN(a) /\ ~IsNaN(b) /\ a >= b

\* Math.max and Math.min: NaN when either argument is NaN
MathMax(a, b) == IF IsNaN(a) \/ IsNaN(b) THEN NaN ELSE IF a >= b THEN a ELSE b

MathMin(a, b) == IF IsNaN(a) \/ IsNaN(b) THEN NaN ELSE IF a <= b THEN a ELSE b

FAbs(a) == IF IsNaN(a) THEN NaN ELSE Abs(a)

\* the largest r in lo..hi with r * r <= n
RECURSIVE ISqrtSearch(_, _, _)
ISqrtSearch(lo, hi, n) ==
  IF lo >= hi THEN lo
  ELSE LET mid == (lo + hi + 1) \div 2
       IN IF mid * mid <= n THEN ISqrtSearch(mid, hi, n)
          ELSE ISqrtSearch(lo, mid - 1, n)

ISqrt(n) == ISqrtSearch(0, 46340, n)

\* Math.sqrt: NaN for NaN and for negative arguments
MathSqrt(x) ==
  IF IsNaN(x) \/ x < 0 THEN NaN
  ELSE IF x <= 200000 THEN ISqrt(x * Scale)
  ELSE ISqrt(x) * 100

\* the model number for the decimal n / d
Dec(n, d) == (n * Scale) \div d

----------------------------------------------------------------------------
(* Deviation: the decayed estimator *)

\* new Deviation(discount): the discount is clamped to [0, 1]
Deviation_new(discount) ==
  [count |-> 0, sum |-> 0, sumSquared |-> 0, weight |-> 0,
   discount |-> MathMax(0, MathMin(Scale, discount))]

\* update(value, weight = 1)
Deviation_update(d, value) ==
  IF d.discount = 0
  THEN [d EXCEPT !.count = FAdd(d.count, Scale),
                 !.weight = FAdd(d.weight, Scale),
                 !.sum = FAdd(d.sum, value),
                 !.sumSquared = FAdd(d.sumSquared, FMul(value, value))]
  ELSE LET factor == FSub(Scale, d.discount)
       IN [d EXCEPT !.count = FAdd(FMul(factor, d.count), Scale),
                    !.weight = FAdd(FMul(factor, d.weight), Scale),
                    !.sum = FAdd(FMul(factor, d.sum), value),
                    !.sumSquared = FAdd(FMul(factor, d.sumSquared), FMul(value, value))]

Deviation_getMean(d) == IF FGt(d.weight, 0) THEN FDiv(d.sum, d.weight) ELSE 0

Deviation_square(x) == FMul(x, x)

Deviation_getVariance(d) ==
  IF FLe(d.weight, 0) THEN 0
  ELSE MathMax(0, FSub(FDiv(d.sumSquared, d.weight), Deviation_square(Deviation_getMean(d))))

Deviation_getStandardDeviation(d) == MathSqrt(Deviation_getVariance(d))

Deviation_getCount(d) == d.count

----------------------------------------------------------------------------
(* BasicThresholder *)

DEFAULT_SCORE_DIFFERENCING == Dec(5, 10)

DEFAULT_MINIMUM_SCORES == 10

DEFAULT_FACTOR_ADJUSTMENT_THRESHOLD == Dec(9, 10)

DEFAULT_ABSOLUTE_THRESHOLD == Dec(8, 10)

DEFAULT_INITIAL_THRESHOLD == Dec(15, 10)

DEFAULT_Z_FACTOR == Dec(25, 10)

MINIMUM_Z_FACTOR == Dec(2, 1)

\* new BasicThresholder(primaryDiscount, secondaryDiscount, adjust);
\* an absent or zero secondaryDiscount falls back to primaryDiscount
BasicThresholder_new(primaryDiscount, secondaryDiscount, adjust) ==
  [count |-> 0,
   primaryDeviation |-> Deviation_new(primaryDiscount),
   secondaryDeviation |->
     Deviation_new(IF secondaryDiscount = 0 THEN primaryDiscount ELSE secondaryDiscount),
   thresholdDeviation |-> Deviation_new(primaryDiscount \div 2),
   autoThreshold |-> adjust,
   scoreDifferencing |-> DEFAULT_SCORE_DIFFERENCING,
   minimumScores |-> DEFAULT_MINIMUM_SCORES,
   absoluteThreshold |-> DEFAULT_ABSOLUTE_THRESHOLD,
   factorAdjustmentThreshold |-> DEFAULT_FACTOR_ADJUSTMENT_THRESHOLD,
   initialThreshold |-> DEFAULT_INITIAL_THRESHOLD,
   zFactor |-> DEFAULT_Z_FACTOR]

BasicThresholder_getPrimaryMean(t) == Deviation_getMean(t.primaryDeviation)

BasicThresholder_getPrimaryStandardDeviation(t) ==
  Deviation_getStandardDeviation(t.primaryDeviation)

BasicThresholder_getSecondaryMean(t) == Deviation_getMean(t.secondaryDeviation)

BasicThresholder_getSecondaryStandardDeviation(t) ==
  Deviation_getStandardDeviation(t.secondaryDeviation)

\* isDeviationReady with the count check dropped
BasicThresholder_isDeviationReady_noCountCheck(t) ==
  IF t.scoreDifferencing # 0
  THEN FGe(Deviation_getCount(t.secondaryDeviation), t.minimumScores * Scale)
  ELSE TRUE

BasicThresholder_isDeviationReady(t) ==
  IF t.count < t.minimumScores THEN FALSE
  ELSE IF t.scoreDifferencing # 0
       THEN FGe(Deviation_getCount(t.secondaryDeviation), t.minimumScores * Scale)
       ELSE TRUE

\* a fraction in [0, 1], as a model number
BasicThresholder_intermediateTermFraction(t) ==
  IF t.count < t.minimumScores THEN 0
  ELSE IF t.count >= 2 * t.minimumScores THEN Scale
  ELSE ((t.count - t.minimumScores) * Scale) \div t.minimumScores

\* this.count++; this.primaryDeviation.update(score)
BasicThresholder_countPrimary(t, score) ==
  [t EXCEPT !.count = t.count + 1,
            !.primaryDeviation = Deviation_update(t.primaryDeviation, score)]

\* the secondary estimator takes Math.max(0, score - primary mean) when score
\* differencing is on (no caller passes a secondaryScore)
BasicThresholder_updateSecondary(t, score) ==
  CASE Computed(t) ->
  IF FGt(t.scoreDifferencing, 0)
  THEN [t EXCEPT !.secondaryDeviation =
                   Deviation_update(t.secondaryDeviation,
                                    MathMax(0, FSub(score, BasicThresholder_getPrimaryMean(t))))]
  ELSE t

\* if (this.autoThreshold) this.thresholdDeviation.update(score)
BasicThresholder_updateAuto(t, score) ==
  CASE Computed(t) ->
  IF t.autoThreshold
  THEN [t EXCEPT !.thresholdDeviation = Deviation_update(t.thresholdDeviation, score)]
  ELSE t

\* update(score)
BasicThresholder_update(t, score) ==
  BasicThresholder_updateAuto(
    BasicThresholder_updateSecondary(BasicThresholder_countPrimary(t, score), score), score)

BasicThresholder_updatePrimary(t, score) ==
  BasicThresholder_updateAuto(BasicThresholder_countPrimary(t, score), score)

BasicThresholder_setZFactor(t, value) ==
  [t EXCEPT !.zFactor = MathMax(value, MINIMUM_Z_FACTOR)]

BasicThresholder_setAbsoluteThreshold(t, value) == [t EXCEPT !.absoluteThreshold = value]

BasicThresholder_setInitialThreshold(t, value) == [t EXCEPT !.initialThreshold = value]

BasicThresholder_setMinimumScores(t, value) == [t EXCEPT !.minimumScores = value]

\* setScoreDifferencing rejects values outside [0, 1]; the caller passes none
BasicThresholder_setScoreDifferencing(t, value) == [t EXCEPT !.scoreDifferencing = value]

\* mean + zFactor * standard deviation of an estimator
BasicThresholder_zThreshold(t, deviation) ==
  FAdd(Deviation_getMean(deviation),
       FMul(t.zFactor, Deviation_getStandardDeviation(deviation)))

\* Math.max(absoluteThreshold, value * fraction + initialThreshold * (1 - fraction))
BasicThresholder_floored(t, value, fraction) ==
  MathMax(t.absoluteThreshold,
          FAdd(FMul(value, fraction), FMul(t.initialThreshold, FSub(Scale, fraction))))

\* getThreshold once the estimators are ready
BasicThresholder_readyThreshold(t, fraction, primaryThreshold) ==
  CASE Computed(<<fraction, primaryThreshold>>) ->
  IF FGt(t.scoreDifferencing, 0) /\ FGt(fraction, 0)
  THEN BasicThresholder_floored(
         t,
         FAdd(FMul(FSub(Scale, t.scoreDifferencing), primaryThreshold),
              FMul(t.scoreDifferencing,
                   BasicThresholder_zThreshold(t, t.secondaryDeviation))),
         fraction)
  ELSE BasicThresholder_floored(t, primaryThreshold, fraction)

BasicThresholder_getThreshold(t, score) ==
  IF ~BasicThresholder_isDeviationReady(t) THEN t.initialThreshold
  ELSE BasicThresholder_readyThreshold(
         t, BasicThresholder_intermediateTermFraction(t),
         BasicThresholder_zThreshold(t, t.primaryDeviation))

\* (score - threshold) / (stdDev + 1e-10), capped at 1.  1e-10 is below the
\* model's resolution: with stdDev = 0 the quotient of a positive difference
\* exceeds 1 and the cap applies.
BasicThresholder_gradeOver(score, threshold, stdDev) ==
  CASE Computed(<<threshold, stdDev>>) ->
  IF FLe(score, threshold) THEN 0
  ELSE IF IsNaN(score) \/ IsNaN(threshold) \/ IsNaN(stdDev) THEN NaN
  ELSE IF stdDev = 0 THEN Scale
  ELSE MathMin(Scale, FDiv(FSub(score, threshold), stdDev))

BasicThresholder_getAnomalyGrade(t, score) ==
  BasicThresholder_gradeOver(
    score, BasicThresholder_getThreshold(t, score),
    IF BasicThresholder_isDeviationReady(t)
    THEN BasicThresholder_getPrimaryStandardDeviation(t)
    ELSE Scale)

BasicThresholder_getZFactor(t) == t.zFactor

----------------------------------------------------------------------------
(* Arrays.  A JavaScript array is a sequence; index i of the program is     *)
(* position i + 1.  null is the empty sequence.  Reading past the end gives *)
(* undefined, which every use below turns into NaN.                         *)

Null == <<>>

At(s, i) == IF i \in 1..Len(s) THEN s[i] ELSE NaN

\* x || 0: zero for 0, NaN and undefined
OrZero(x) == IF IsNaN(x) THEN 0 ELSE x

RECURSIVE ArrayFrom(_, _)
\* the array <<f[1], ..., f[n]>>, each element computed once
ArrayFrom(f, n) == IF n = 0 THEN <<>> ELSE Append(ArrayFrom(f, n - 1), f[n])

Zeros(n) == ArrayFrom([i \in 1..n |-> 0], n)

Min2(a, b) == IF a <= b THEN a ELSE b

SeqRange(s) == {s[i] : i \in 1..Len(s)}

----------------------------------------------------------------------------
(* Preprocessor *)

Preprocessor_DEFAULT_SHINGLE_SIZE == 8

DEFAULT_START_NORMALIZATION == 10

\* stands for Number.MAX_SAFE_INTEGER: above every count the model reaches
DEFAULT_STOP_NORMALIZATION == 2000000000

DEFAULT_CLIP_NORMALIZATION == Dec(100, 1)

DEFAULT_NORMALIZATION_PRECISION == Dec(1, 1000)

DEFAULT_TRANSFORM_DECAY == Dec(1, 100)

\* new Preprocessor(config).  An option that is absent is passed as 0: the
\* constructor reads every option as `config.x || default`, which treats 0
\* and undefined alike.
Preprocessor_new(config) ==
  LET shingleSize == IF config.shingleSize = 0 THEN Preprocessor_DEFAULT_SHINGLE_SIZE
                     ELSE config.shingleSize
      dimensions == IF config.dimensions = 0 THEN shingleSize ELSE config.dimensions
      inputLength == IF config.inputLength = 0 THEN dimensions \div shingleSize
                     ELSE config.inputLength
  IN [shingleSize |-> shingleSize,
      dimensions |-> dimensions,
      inputLength |-> inputLength,
      transformMethod |-> config.transformMethod,
      forestMode |-> config.forestMode,
      imputationMethod |-> config.imputationMethod,
      normalizeTime |-> config.normalizeTime,
      weightTime |-> config.weightTime,
      transformDecay |-> DEFAULT_TRANSFORM_DECAY,
      startNormalization |-> IF config.startNormalization = 0
                             THEN DEFAULT_START_NORMALIZATION
                             ELSE config.startNormalization,
      stopNormalization |-> IF config.stopNormalization = 0
                            THEN DEFAULT_STOP_NORMALIZATION
                            ELSE config.stopNormalization,
      clipFactor |-> IF config.clipFactor = 0 THEN DEFAULT_CLIP_NORMALIZATION
                     ELSE config.clipFactor,
      internalTimeStamp |-> 0,
      valuesSeen |-> 0,
      numberOfImputed |-> 0,
      lastShingledInput |-> Null,
      previousTimeStamps |-> IF config.forestMode = "TIME_AUGMENTED"
                             THEN Zeros(shingleSize) ELSE Null,
      timeStampDeviations |-> IF config.forestMode = "TIME_AUGMENTED"
                              THEN ArrayFrom([i \in 1..shingleSize |->
                                      Deviation_new(DEFAULT_TRANSFORM_DECAY)], shingleSize)
                              ELSE Null,
      dataQuality |-> Deviation_new(0),
      deviations |-> ArrayFrom([i \in 1..inputLength |->
                        ArrayFrom([j \in 1..2 |-> Deviation_new(DEFAULT_TRANSFORM_DECAY)], 2)], inputLength)]

\* impute(index); defaultFill is never configured by the orchestrator
Preprocessor_impute(p, index) ==
  CASE p.imputationMethod = "ZERO" -> 0
    [] p.imputationMethod = "FIXED_VALUES" -> 0
    [] p.imputationMethod \in {"PREVIOUS", "RCF"} ->
         OrZero(At(p.lastShingledInput, index + 1))
    [] OTHER -> 0

\* handleMissingValues: <<the imputed copy, the number of substitutions>>
Preprocessor_handleMissingValues(p, inputPoint, missingValues) ==
  LET valid == {k \in 1..Len(missingValues) :
                  missingValues[k] >= 0 /\ missingValues[k] < Len(inputPoint)}
  IN <<ArrayFrom([i \in 1..Len(inputPoint) |->
          IF \E k \in valid : missingValues[k] = i - 1
          THEN Preprocessor_impute(p, i - 1)
          ELSE inputPoint[i]], Len(inputPoint)),
       Cardinality(valid)>>

Preprocessor_shingle(p, inputPoint) ==
  IF p.shingleSize = 1 THEN inputPoint
  ELSE LET offset == p.inputLength
           keep == p.dimensions - offset
       IN ArrayFrom([k \in 1..p.dimensions |->
             IF k <= keep
             THEN (IF p.lastShingledInput # Null
                   THEN At(p.lastShingledInput, k + offset) ELSE 0)
             ELSE At(inputPoint, k - keep)], p.dimensions)

\* augmentWithTime, first loop: the gaps between the stored timestamps, the
\* newest gap first
Preprocessor_timeDiffs(p, timestamp) ==
  ArrayFrom([i \in 1..p.shingleSize |->
               IF i = 1 THEN (timestamp - p.previousTimeStamps[p.shingleSize]) * Scale
               ELSE (p.previousTimeStamps[i] - p.previousTimeStamps[i - 1]) * Scale],
            p.shingleSize)

\* (value - mean) / std when std > 0, else 0
Preprocessor_zScore(value, mean, std) ==
  IF FGt(std, 0) THEN FDiv(FSub(value, mean), std) ELSE 0

\* augmentWithTime, second loop: the normalized, weighted time features
Preprocessor_timeFeatures(p, devs, newTimeDiffs) ==
  ArrayFrom([i \in 1..p.shingleSize |->
               FMul(Preprocessor_zScore(newTimeDiffs[i], Deviation_getMean(devs[i]),
                                        Deviation_getStandardDeviation(devs[i])),
                    p.weightTime)],
            p.shingleSize)

\* augmentWithTime with the gaps and the updated time estimators at hand
Preprocessor_augmented(p, shingledInput, timestamp, newTimeDiffs, devs) ==
  CASE Computed(devs) ->
  <<[p EXCEPT !.timeStampDeviations = devs,
              !.previousTimeStamps =
                 ArrayFrom([i \in 1..p.shingleSize |->
                              IF i < p.shingleSize THEN p.previousTimeStamps[i + 1]
                              ELSE timestamp],
                           p.shingleSize)],
    IF p.normalizeTime /\ p.valuesSeen >= p.startNormalization
    THEN shingledInput \o Preprocessor_timeFeatures(p, devs, newTimeDiffs)
    ELSE shingledInput>>

Preprocessor_updateTimeDeviations(p, shingledInput, timestamp, newTimeDiffs) ==
  CASE Computed(newTimeDiffs) ->
  Preprocessor_augmented(
    p, shingledInput, timestamp, newTimeDiffs,
    ArrayFrom([i \in 1..p.shingleSize |->
                 Deviation_update(p.timeStampDeviations[i], newTimeDiffs[i])],
              p.shingleSize))

\* augmentWithTime: the preprocessor with its time statistics updated, and
\* the shingled input with the time features appended (when normalizing)
Preprocessor_augmentWithTime(p, shingledInput, timestamp) ==
  Preprocessor_updateTimeDeviations(p, shingledInput, timestamp,
                                    Preprocessor_timeDiffs(p, timestamp))

Preprocessor_normalize(p, shingledInput) ==
  ArrayFrom([k \in 1..Len(shingledInput) |->
     IF k <= p.inputLength * p.shingleSize
     THEN LET i == ((k - 1) % p.inputLength) + 1
              mean == Deviation_getMean(p.deviations[i][1])
              std == Deviation_getStandardDeviation(p.deviations[i][1])
              denom == MathMax(DEFAULT_NORMALIZATION_PRECISION, std)
              normalized == FDiv(FSub(shingledInput[k], mean), denom)
          IN MathMax(0 - p.clipFactor, MathMin(p.clipFactor, normalized))
     ELSE 0], Len(shingledInput))

Preprocessor_difference(p, shingledInput) ==
  ArrayFrom([k \in 1..Len(shingledInput) |->
     IF k > p.inputLength /\ k <= p.inputLength * p.shingleSize
     THEN FSub(shingledInput[k], shingledInput[k - p.inputLength])
     ELSE 0], Len(shingledInput))

Preprocessor_normalizeDifference(p, shingledInput) ==
  Preprocessor_normalize(p, Preprocessor_difference(p, shingledInput))

Preprocessor_transform(p, shingledInput) ==
  IF \/ p.transformMethod = "NONE"
     \/ p.valuesSeen < p.startNormalization
     \/ p.valuesSeen >= p.stopNormalization
  THEN shingledInput
  ELSE CASE p.transformMethod = "NORMALIZE" -> Preprocessor_normalize(p, shingledInput)
         [] p.transformMethod = "DIFFERENCE" -> Preprocessor_difference(p, shingledInput)
         [] p.transformMethod = "NORMALIZE_DIFFERENCE" ->
              Preprocessor_normalizeDifference(p, shingledInput)
         [] OTHER -> shingledInput

Preprocessor_updateStatistics(p, currentInput, shingledInput) ==
  LET missingRatio == FDiv(p.numberOfImputed * Scale, Len(currentInput) * Scale)
  IN [p EXCEPT
        !.dataQuality = Deviation_update(p.dataQuality, FSub(Scale, missingRatio)),
        !.deviations =
           ArrayFrom([i \in 1..p.inputLength |->
              LET value == At(currentInput, i)
                  prevValue == At(p.lastShingledInput, p.dimensions - p.inputLength + i)
              IN ArrayFrom([j \in 1..2 |->
                    IF j = 1 THEN Deviation_update(p.deviations[i][1], value)
                    ELSE IF p.lastShingledInput # Null
                         THEN Deviation_update(p.deviations[i][2], FSub(value, prevValue))
                         ELSE p.deviations[i][2]], 2)], p.inputLength)]

\* process, last part: statistics, transform and the counters
Preprocessor_finish(p, currentInput, shingledInput) ==
  CASE Computed(<<p, currentInput, shingledInput>>) ->
  [preprocessor |->
     [Preprocessor_updateStatistics(p, currentInput, shingledInput)
        EXCEPT !.internalTimeStamp = p.internalTimeStamp + 1,
               !.valuesSeen = p.valuesSeen + 1,
               !.lastShingledInput = shingledInput],
   point |-> Preprocessor_transform(p, shingledInput),
   shingledInput |-> shingledInput]

\* With shingleSize 1 the shingled input is the imputed copy itself, so the
\* time features pushed onto one are seen through the other.
Preprocessor_afterTime(p, imputed, timed) ==
  CASE Computed(timed) ->
  Preprocessor_finish(timed[1], IF p.shingleSize = 1 THEN timed[2] ELSE imputed, timed[2])

Preprocessor_afterShingle(p, imputed, shingledInput, timestamp) ==
  CASE Computed(shingledInput) ->
  Preprocessor_afterTime(
    p, imputed,
    IF p.forestMode = "TIME_AUGMENTED"
    THEN Preprocessor_augmentWithTime(p, shingledInput, timestamp)
    ELSE <<p, shingledInput>>)

Preprocessor_afterImpute(p, imputed, timestamp) ==
  CASE Computed(p) ->
  Preprocessor_afterShingle(p, imputed, Preprocessor_shingle(p, imputed), timestamp)

Preprocessor_afterMissing(p, handled, timestamp) ==
  CASE Computed(handled) ->
  Preprocessor_afterImpute([p EXCEPT !.numberOfImputed = p.numberOfImputed + handled[2]],
                           handled[1], timestamp)

\* process(inputPoint, timestamp, missingValues): the preprocessor after the
\* call, the point handed to the forest and the shingled input
Preprocessor_process(p, inputPoint, timestamp, missingValues) ==
  Preprocessor_afterMissing(
    p, Preprocessor_handleMissingValues(p, inputPoint, missingValues), timestamp)

----------------------------------------------------------------------------
(* JavaRandom: the 48-bit linear congruential generator.  The 48-bit seed   *)
(* is kept as <<hi, lo>>, two 24-bit halves, seed = hi * 2^24 + lo.         *)

Pow2(n) == 2 ^ n

Half == Pow2(24)

\* MULTIPLIER = 0x5DEECE66D = MULT_HI * 2^24 + MULT_LO
MULT_HI == 1502

MULT_LO == 15525485

ADDEND == 11

RECURSIVE BitXor(_, _, _)
\* the bitwise exclusive or of the low n bits of a and b
BitXor(a, b, n) ==
  IF n = 0 THEN 0
  ELSE ((a + b) % 2) + 2 * BitXor(a \div 2, b \div 2, n - 1)

\* setSeed(seed): (BigInt(seed) ^ MULTIPLIER) & MASK, for |seed| < 2^24.
\* A negative seed is its two's complement: all ones above the low half.
JavaRandom_setSeed(seed) ==
  LET lo == seed % Half
      hi == IF seed < 0 THEN Half - 1 ELSE 0
  IN <<BitXor(hi, MULT_HI, 24), BitXor(lo, MULT_LO, 24)>>

\* the halves of the new seed from the partial products: ll = <<q, r>> of
\* lo * MULT_LO by 2^24, hl and lh the low halves of the cross products
JavaRandom_combine(ll, hl, lh) ==
  CASE Computed(<<ll, hl, lh>>) ->
  <<(ll[1] + hl + lh + (ll[2] + ADDEND) \div Half) % Half, (ll[2] + ADDEND) % Half>>

\* the seed after one step: (seed * MULTIPLIER + ADDEND) & MASK
JavaRandom_step(s) ==
  JavaRandom_combine(MulDivQR(s[2], MULT_LO, Half, 16),
                     MulDivQR(s[1], MULT_LO, Half, 16)[2],
                     MulDivQR(s[2], MULT_HI, Half, 16)[2])

\* next(bits), on the seed after the step: seed >> (48 - bits), bits >= 24
JavaRandom_bits(s, bits) == s[1] * Pow2(bits - 24) + s[2] \div Pow2(48 - bits)

JavaRandom_draw(s1, s2) ==
  CASE Computed(<<s1, s2>>) -> <<s2, JavaRandom_bits(s1, 26), JavaRandom_bits(s2, 27)>>

JavaRandom_nextLow(s1) ==
  CASE Computed(s1) -> JavaRandom_draw(s1, JavaRandom_step(s1))

\* nextDouble(): <<the seed afterwards, high = next(26), low = next(27)>>;
\* the value is (high * 2^27 + low) / 2^53
JavaRandom_nextDouble(s) == JavaRandom_nextLow(JavaRandom_step(s))

\* Math.floor(nextDouble() * n) for 0 <= n < 16, from the draw d
FloorTimes(d, n) == (d[2] * n + (d[3] * n) \div Pow2(27)) \div Pow2(26)

\* the draw d as a model number, rounded down
DrawValue(d) == MulDiv(d[2], Scale, Pow2(26))

----------------------------------------------------------------------------
(* OptimizedRCF *)

RECURSIVE SumSeq(_)
\* the sum of a sequence of model numbers, left to right
SumSeq(s) == IF s = <<>> THEN 0 ELSE FAdd(SumSeq(SubSeq(s, 1, Len(s) - 1)), s[Len(s)])

euclideanDistanceSquared(dimensions, a, b) ==
  SumSeq(ArrayFrom([i \in 1..dimensions |-> Deviation_square(FSub(At(a, i), At(b, i)))],
                   dimensions))

OptimizedTree_new(dimensions, sampleSize, randomSeed) ==
  [dimensions |-> dimensions,
   maxSize |-> sampleSize,
   nodes |-> <<>>,
   size |-> 0,
   random |-> JavaRandom_setSeed(randomSeed)]

\* the node at Math.floor(random() * nodes.length), from the draw d
OptimizedTree_randomNode(tree, d) == tree.nodes[FloorTimes(d, Len(tree.nodes)) + 1]

RECURSIVE OptimizedTree_depthLoop(_, _, _, _, _)
\* one round of the loop of calculateDepth: d1 picks the node, d2 is compared
\* with the distance
OptimizedTree_depthRound(tree, point, i, distance, d2, depth) ==
  CASE Computed(<<distance, d2>>) ->
  OptimizedTree_depthLoop(tree, point, i - 1, d2[1],
                          IF FGt(distance, DrawValue(d2)) THEN depth + 1 ELSE depth)

OptimizedTree_depthPick(tree, point, i, d1, depth) ==
  CASE Computed(d1) ->
  OptimizedTree_depthRound(
    tree, point, i,
    euclideanDistanceSquared(tree.dimensions, point, OptimizedTree_randomNode(tree, d1).point),
    JavaRandom_nextDouble(d1[1]), depth)

\* the loop of calculateDepth with i rounds to go: <<seed afterwards, depth>>
OptimizedTree_depthLoop(tree, point, i, random, depth) ==
  IF i = 0 THEN <<random, depth>>
  ELSE OptimizedTree_depthPick(tree, point, i, JavaRandom_nextDouble(random), depth)

OptimizedTree_calculateDepth(tree, point) ==
  IF Len(tree.nodes) = 0 THEN <<tree.random, 0>>
  ELSE OptimizedTree_depthLoop(tree, point, Min2(10, Len(tree.nodes)), tree.random, 0)

\* add, reservoir full: the node replaces the one at floor(random() * size)
OptimizedTree_replace(tree, node, d) ==
  CASE Computed(d) ->
  IF FloorTimes(d, tree.size) < tree.maxSize
  THEN [tree EXCEPT !.nodes = [tree.nodes EXCEPT ![FloorTimes(d, tree.size) + 1] = node],
                    !.random = d[1]]
  ELSE [tree EXCEPT !.random = d[1]]

\* add with cd = <<seed afterwards, depth>> from calculateDepth
OptimizedTree_addNode(tree, node, random) ==
  CASE Computed(random) ->
  IF tree.size < tree.maxSize
  THEN [tree EXCEPT !.nodes = Append(tree.nodes, node),
                    !.size = tree.size + 1,
                    !.random = random]
  ELSE OptimizedTree_replace(tree, node, JavaRandom_nextDouble(random))

OptimizedTree_addAtDepth(tree, point, cd) ==
  CASE Computed(cd) ->
  OptimizedTree_addNode(tree, [point |-> point, count |-> 1, depth |-> cd[2]], cd[1])

OptimizedTree_add(tree, point) ==
  OptimizedTree_addAtDepth(tree, point, OptimizedTree_calculateDepth(tree, point))

RECURSIVE OptimizedTree_scoreLoop(_, _, _, _, _)
\* one round of the loop of getAnomalyScore, from the draw d
OptimizedTree_scoreRound(tree, point, i, d, totalScore) ==
  CASE Computed(<<d, totalScore>>) ->
  OptimizedTree_scoreLoop(
    tree, point, i - 1, d[1],
    FAdd(totalScore,
         FDiv(Scale,
              FAdd(Scale,
                   MathSqrt(euclideanDistanceSquared(
                              tree.dimensions, point,
                              OptimizedTree_randomNode(tree, d).point))))))

\* the loop of getAnomalyScore with i rounds to go: <<seed afterwards, totalScore>>
OptimizedTree_scoreLoop(tree, point, i, random, totalScore) ==
  IF i = 0 THEN <<random, totalScore>>
  ELSE OptimizedTree_scoreRound(tree, point, i, JavaRandom_nextDouble(random), totalScore)

\* 1 - totalScore / samples, with r = <<seed afterwards, totalScore>>
OptimizedTree_averaged(tree, samples, r) ==
  CASE Computed(r) ->
  <<[tree EXCEPT !.random = r[1]], FSub(Scale, FDiv(r[2], samples * Scale))>>

\* getAnomalyScore(point): <<the tree with its generator advanced, the score>>
OptimizedTree_getAnomalyScore(tree, point) ==
  IF Len(tree.nodes) = 0 THEN <<tree, 0>>
  ELSE OptimizedTree_averaged(
         tree, Min2(10, Len(tree.nodes)),
         OptimizedTree_scoreLoop(tree, point, Min2(10, Len(tree.nodes)), tree.random, 0))

\* `config.randomSeed || Date.now()`: seed 0 is replaced by the clock
SeedOrNow(randomSeed, now) == IF randomSeed = 0 THEN now ELSE randomSeed

\* new OptimizedRCF(config), constructed when the clock reads `now`
OptimizedRCF_new(config, now) ==
  LET baseSeed == SeedOrNow(config.randomSeed, now)
  IN [kind |-> "OptimizedRCF",
      dimensions |-> config.dimensions,
      numberOfTrees |-> config.numberOfTrees,
      sampleSize |-> config.sampleSize,
      trees |-> ArrayFrom([i \in 1..config.numberOfTrees |->
                   OptimizedTree_new(config.dimensions, config.sampleSize,
                                     baseSeed + (i - 1) * 1000)], config.numberOfTrees),
      updateCount |-> 0]

\* updateCount < sampleSize * 0.1
OptimizedRCF_notReady(f) == 10 * f.updateCount < f.sampleSize

\* the mean of the tree scores, with scored[i] = <<tree afterwards, score>>
OptimizedRCF_averaged(f, scored) ==
  CASE Computed(scored) ->
  <<[f EXCEPT !.trees = ArrayFrom([i \in 1..f.numberOfTrees |-> scored[i][1]],
                                  f.numberOfTrees)],
    FDiv(SumSeq(ArrayFrom([i \in 1..f.numberOfTrees |-> scored[i][2]], f.numberOfTrees)),
         f.numberOfTrees * Scale)>>

\* getAnomalyScore(point): <<the forest with generators advanced, the score>>
OptimizedRCF_getAnomalyScore(f, point) ==
  IF OptimizedRCF_notReady(f) THEN <<f, 0>>
  ELSE OptimizedRCF_averaged(
         f, ArrayFrom([i \in 1..f.numberOfTrees |->
                         OptimizedTree_getAnomalyScore(f.trees[i], point)],
                      f.numberOfTrees))

OptimizedRCF_update(f, point) ==
  [f EXCEPT !.trees = ArrayFrom([i \in 1..f.numberOfTrees |->
                                   OptimizedTree_add(f.trees[i], point)], f.numberOfTrees),
            !.updateCount = f.updateCount + 1]

\* process, after scoring: s = <<forest, score>>
OptimizedRCF_scored(s, point) ==
  CASE Computed(s) ->
  [forest |-> OptimizedRCF_update(s[1], point),
   score |-> s[2],
   expectedPoint |-> Null,
   attribution |-> Null]

\* process(point): score first, then update; no expected point or attribution
OptimizedRCF_process(f, point) ==
  OptimizedRCF_scored(OptimizedRCF_getAnomalyScore(f, point), point)

----------------------------------------------------------------------------
(* SimplifiedRCF: RandomCutTree *)

LCG_MULTIPLIER == 9301

LCG_INCREMENT == 49297

LCG_MODULUS == 233280

\* the tree's generator: seed = (seed * 9301 + 49297) % 233280, where % is
\* JavaScript's remainder, which takes the sign of the dividend.  random()
\* returns the new seed / 233280.
RandomCutTree_nextSeed(seed) ==
  LET a == Abs(seed)
      prodMod == MulDivQR(a % LCG_MODULUS, LCG_MULTIPLIER, LCG_MODULUS, 16)[2]
      small == seed * LCG_MULTIPLIER + LCG_INCREMENT
  IN IF seed >= 0 THEN (prodMod + LCG_INCREMENT) % LCG_MODULUS
     ELSE IF a < 1000 /\ small >= 0 THEN small % LCG_MODULUS
     ELSE 0 - ((prodMod - LCG_INCREMENT) % LCG_MODULUS)

\* Math.floor(random() * n), from the seed after the step
RandomCutTree_floorTimes(seed, n) == (seed * n) \div LCG_MODULUS

\* random() * x for a model number x
RandomCutTree_times(seed, x) ==
  IF IsNaN(x) THEN NaN ELSE MulDiv(seed, x, LCG_MODULUS)

\* Math.log(n) for the reservoir sizes the model reaches
LnTable == <<0, 6931, 10986, 13863, 16094, 17918, 19459, 20794, 21972, 23026, 23979, 24849>>

MathLog(n) == LnTable[n]

NullNode ==
  [isLeaf |-> TRUE, point |-> Null, pointIndex |-> 0, cutDimension |-> 0, cutValue |-> 0,
   left |-> Null, right |-> Null, boxMin |-> Null, boxMax |-> Null, mass |-> 0]

\* createLeaf: the bounding box of one point is the point
RandomCutTree_createLeaf(dimensions, point, pointIndex) ==
  [isLeaf |-> TRUE, point |-> point, pointIndex |-> pointIndex,
   cutDimension |-> 0, cutValue |-> 0, left |-> Null, right |-> Null,
   boxMin |-> ArrayFrom([i \in 1..dimensions |-> At(point, i)], dimensions),
   boxMax |-> ArrayFrom([i \in 1..dimensions |-> At(point, i)], dimensions),
   mass |-> 1]

RandomCutTree_new(dimensions, sampleSize, randomSeed) ==
  [dimensions |-> dimensions,
   sampleSize |-> sampleSize,
   root |-> NullNode,
   points |-> <<>>,
   seed |-> randomSeed]

RECURSIVE RandomCutTree_pickByRange(_, _, _, _)
\* the weighted selection loop of chooseCutDimension, from dimension i (0-based)
RandomCutTree_pickByRange(ranges, dimensions, i, r) ==
  IF i >= dimensions THEN dimensions - 1
  ELSE LET r1 == FSub(r, ranges[i + 1])
       IN IF FLe(r1, 0) THEN i
          ELSE RandomCutTree_pickByRange(ranges, dimensions, i + 1, r1)

\* chooseCutDimension with the ranges summed and the generator stepped
RandomCutTree_cutDimensionFor(dimensions, ranges, totalRange, s1) ==
  CASE Computed(<<totalRange, s1>>) ->
  IF totalRange = 0
  THEN <<RandomCutTree_floorTimes(s1, dimensions), s1>>
  ELSE <<RandomCutTree_pickByRange(ranges, dimensions, 0,
                                   RandomCutTree_times(s1, totalRange)), s1>>

RandomCutTree_chooseAmong(dimensions, ranges, seed) ==
  RandomCutTree_cutDimensionFor(dimensions, ranges, SumSeq(ranges),
                                RandomCutTree_nextSeed(seed))

\* chooseCutDimension(box): <<the dimension (0-based), the seed afterwards>>
RandomCutTree_chooseCutDimension(dimensions, boxMin, boxMax, seed) ==
  RandomCutTree_chooseAmong(
    dimensions,
    ArrayFrom([i \in 1..dimensions |-> FSub(boxMax[i], boxMin[i])], dimensions),
    seed)

\* insertNode at a leaf, last part: the internal node over the old leaf and
\* the new one
RandomCutTree_split(dimensions, node, point, pointIndex, boxMin, boxMax,
                    dimension, cutValue, seed) ==
  CASE Computed(cutValue) ->
  <<[isLeaf |-> FALSE, point |-> Null, pointIndex |-> 0,
     cutDimension |-> dimension, cutValue |-> cutValue,
     left |-> IF FLe(At(node.point, dimension + 1), cutValue) THEN node
              ELSE RandomCutTree_createLeaf(dimensions, point, pointIndex),
     right |-> IF FLe(At(node.point, dimension + 1), cutValue)
               THEN RandomCutTree_createLeaf(dimensions, point, pointIndex)
               ELSE node,
     boxMin |-> boxMin, boxMax |-> boxMax, mass |-> 2],
    seed>>

\* cutValue = box.min[dimension] + random() * (box.max[dimension] - box.min[dimension])
RandomCutTree_cutAt(dimensions, node, point, pointIndex, boxMin, boxMax, dimension, s2) ==
  CASE Computed(s2) ->
  RandomCutTree_split(
    dimensions, node, point, pointIndex, boxMin, boxMax, dimension,
    FAdd(At(boxMin, dimension + 1),
         RandomCutTree_times(s2, FSub(At(boxMax, dimension + 1), At(boxMin, dimension + 1)))),
    s2)

RandomCutTree_cutIn(dimensions, node, point, pointIndex, boxMin, boxMax, cd) ==
  CASE Computed(cd) ->
  RandomCutTree_cutAt(dimensions, node, point, pointIndex, boxMin, boxMax,
                      cd[1], RandomCutTree_nextSeed(cd[2]))

\* insertNode at a leaf, with the box merged from the two points
RandomCutTree_splitLeaf(dimensions, node, point, pointIndex, boxMin, boxMax, seed) ==
  CASE Computed(<<boxMin, boxMax>>) ->
  RandomCutTree_cutIn(dimensions, node, point, pointIndex, boxMin, boxMax,
                      RandomCutTree_chooseCutDimension(dimensions, boxMin, boxMax, seed))

RECURSIVE RandomCutTree_insertNode(_, _, _, _, _)
\* insertNode(node, point, pointIndex): <<the subtree, the seed afterwards>>
RandomCutTree_insertNode(dimensions, node, point, pointIndex, seed) ==
  IF node.isLeaf
  THEN RandomCutTree_splitLeaf(
         dimensions, node, point, pointIndex,
         ArrayFrom([i \in 1..dimensions |-> MathMin(At(node.point, i), At(point, i))],
                   dimensions),
         ArrayFrom([i \in 1..dimensions |-> MathMax(At(node.point, i), At(point, i))],
                   dimensions),
         seed)
  ELSE LET goLeft == FLe(At(point, node.cutDimension + 1), node.cutValue)
           sub == RandomCutTree_insertNode(dimensions,
                    IF goLeft THEN node.left ELSE node.right, point, pointIndex, seed)
       IN <<[node EXCEPT
               !.boxMin = ArrayFrom([i \in 1..dimensions |->
                                       MathMin(node.boxMin[i], At(point, i))], dimensions),
               !.boxMax = ArrayFrom([i \in 1..dimensions |->
                                       MathMax(node.boxMax[i], At(point, i))], dimensions),
               !.mass = node.mass + 1,
               !.left = IF goLeft THEN sub[1] ELSE node.left,
               !.right = IF goLeft THEN node.right ELSE sub[1]],
            sub[2]>>

RECURSIVE RandomCutTree_insert(_, _)
RECURSIVE RandomCutTree_reinsert(_, _, _)

\* the loop of deletePoint: insert remainingPoints[k], remainingPoints[k+1], ...
RandomCutTree_reinsert(tree, remainingPoints, k) ==
  CASE Computed(tree) ->
  IF k > Len(remainingPoints) THEN tree
  ELSE RandomCutTree_reinsert(RandomCutTree_insert(tree, remainingPoints[k]),
                              remainingPoints, k + 1)

\* this.points.filter((_, i) => i !== index)
RandomCutTree_pointsWithout(points, index) ==
  SelectSeq(ArrayFrom([k \in 1..Len(points) |-> <<k - 1, points[k]>>], Len(points)),
            LAMBDA e : e[1] # index)

RandomCutTree_rebuild(tree, kept) ==
  CASE Computed(kept) ->
  RandomCutTree_reinsert([tree EXCEPT !.points = <<>>, !.root = NullNode],
                         ArrayFrom([k \in 1..Len(kept) |-> kept[k][2]], Len(kept)), 1)

\* deletePoint(index): rebuild the tree from the points other than points[index]
RandomCutTree_deletePoint(tree, index) ==
  RandomCutTree_rebuild(tree, RandomCutTree_pointsWithout(tree.points, index))

\* insert, reservoir full: the point at floor(random() * points.length) leaves
RandomCutTree_evict(tree, s1) ==
  CASE Computed(s1) ->
  RandomCutTree_deletePoint([tree EXCEPT !.seed = s1],
                            RandomCutTree_floorTimes(s1, Len(tree.points)))

RandomCutTree_inserted(tree, point, ins) ==
  CASE Computed(ins) ->
  [tree EXCEPT !.points = Append(tree.points, point), !.root = ins[1], !.seed = ins[2]]

\* insert, after the eviction: the first point becomes the root leaf
RandomCutTree_place(tree, point) ==
  CASE Computed(tree) ->
  IF tree.root.mass = 0
  THEN [tree EXCEPT !.points = Append(tree.points, point),
                    !.root = RandomCutTree_createLeaf(tree.dimensions, point,
                                                      Len(tree.points))]
  ELSE RandomCutTree_inserted(
         tree, point,
         RandomCutTree_insertNode(tree.dimensions, tree.root, point, Len(tree.points),
                                  tree.seed))

RandomCutTree_insert(tree, point) ==
  RandomCutTree_place(IF Len(tree.points) >= tree.sampleSize
                      THEN RandomCutTree_evict(tree, RandomCutTree_nextSeed(tree.seed))
                      ELSE tree,
                      point)

RECURSIVE RandomCutTree_getIsolationDepth(_, _, _)
RandomCutTree_getIsolationDepth(node, point, currentDepth) ==
  IF node.isLeaf THEN currentDepth
  ELSE IF FLe(At(point, node.cutDimension + 1), node.cutValue)
       THEN RandomCutTree_getIsolationDepth(node.left, point, currentDepth + 1)
       ELSE RandomCutTree_getIsolationDepth(node.right, point, currentDepth + 1)

\* Math.max(0, 1 - depth / (2 * Math.log(points.length)))
RandomCutTree_getAnomalyScore(tree, point) ==
  IF tree.root.mass = 0 \/ Len(tree.points) = 0 THEN 0
  ELSE LET depth == RandomCutTree_getIsolationDepth(tree.root, point, 0)
           expectedDepth == 2 * MathLog(Len(tree.points))
       IN MathMax(0, FSub(Scale, FDiv(depth * Scale, expectedDepth)))

\* s.sort((a, b) => a - b): position of element i in the sorted order, ties
\* kept in their original order
SortRank(keys, i) ==
  Cardinality({j \in 1..Len(keys) : keys[j] < keys[i] \/ (keys[j] = keys[i] /\ j < i)})

SortPermutation(keys) ==
  ArrayFrom([r \in 1..Len(keys) |-> CHOOSE i \in 1..Len(keys) : SortRank(keys, i) = r - 1], Len(keys))

SortNumbers(values) ==
  LET perm == SortPermutation(values)
  IN ArrayFrom([r \in 1..Len(values) |-> values[perm[r]]], Len(values))

\* values[Math.floor(values.length / 2)] of the sorted values
MedianOf(values) == SortNumbers(values)[(Len(values) \div 2) + 1]

RandomCutTree_euclideanDistance(a, b) ==
  MathSqrt(SumSeq(ArrayFrom([i \in 1..Len(a) |-> Deviation_square(FSub(a[i], At(b, i)))],
                            Len(a))))

\* getNearestNeighbors(point, k): the k stored points nearest to point
RandomCutTree_getNearestNeighbors(tree, point, k) ==
  LET distances == ArrayFrom([i \in 1..Len(tree.points) |->
                                RandomCutTree_euclideanDistance(point, tree.points[i])], Len(tree.points))
      perm == SortPermutation(distances)
  IN ArrayFrom([r \in 1..Min2(k, Len(tree.points)) |-> tree.points[perm[r]]], Min2(k, Len(tree.points)))

\* getAttribution(point): [high, low], the deviation from the median per dimension
RandomCutTree_getAttribution(tree, point) ==
  LET median(d) == MedianOf(ArrayFrom([i \in 1..Len(tree.points) |-> At(tree.points[i], d)], Len(tree.points)))
      deviation(d) == FAbs(FSub(At(point, d), median(d)))
      isHigh(d) == FGt(At(point, d), median(d))
  IN IF Len(tree.points) = 0
     THEN [high |-> Zeros(tree.dimensions), low |-> Zeros(tree.dimensions)]
     ELSE [high |-> ArrayFrom([d \in 1..tree.dimensions |-> IF isHigh(d) THEN deviation(d) ELSE 0], tree.dimensions),
           low |-> ArrayFrom([d \in 1..tree.dimensions |-> IF isHigh(d) THEN 0 ELSE deviation(d)], tree.dimensions)]

----------------------------------------------------------------------------
(* SimplifiedRCF *)

SimplifiedRCF_new(config, now) ==
  [kind |-> "SimplifiedRCF",
   dimensions |-> config.dimensions,
   numberOfTrees |-> config.numberOfTrees,
   sampleSize |-> config.sampleSize,
   trees |-> ArrayFrom([i \in 1..config.numberOfTrees |->
                RandomCutTree_new(config.dimensions, config.sampleSize,
                                  SeedOrNow(config.randomSeed, now) + (i - 1) * 1000)], config.numberOfTrees),
   totalUpdates |-> 0]

RECURSIVE ConcatAll(_, _)
ConcatAll(seqs, i) ==
  IF i > Len(seqs) THEN <<>> ELSE seqs[i] \o ConcatAll(seqs, i + 1)

SimplifiedRCF_calculateExpectedPoint(f, point) ==
  LET allNeighbors == ConcatAll(ArrayFrom([i \in 1..f.numberOfTrees |->
                         RandomCutTree_getNearestNeighbors(f.trees[i], point, 5)], f.numberOfTrees), 1)
  IN IF Len(allNeighbors) = 0 THEN point
     ELSE ArrayFrom([d \in 1..f.dimensions |->
             MedianOf(ArrayFrom([n \in 1..Len(allNeighbors) |-> At(allNeighbors[n], d)], Len(allNeighbors)))], f.dimensions)

SimplifiedRCF_aggregateAttributions(f, attributions) ==
  IF Len(attributions) = 0 THEN Zeros(f.dimensions)
  ELSE ArrayFrom([d \in 1..f.dimensions |->
          LET totalHigh == SumSeq(ArrayFrom([a \in 1..Len(attributions) |-> attributions[a].high[d]], Len(attributions)))
              totalLow == SumSeq(ArrayFrom([a \in 1..Len(attributions) |-> attributions[a].low[d]], Len(attributions)))
          IN FDiv(FAdd(totalHigh, totalLow), 2 * Len(attributions) * Scale)], f.dimensions)

\* isOutputReady(): totalUpdates >= sampleSize * 0.1
SimplifiedRCF_isOutputReady(f) == 10 * f.totalUpdates >= f.sampleSize

\* process, after the insertions: score, expected point and attribution
\* against the updated trees
SimplifiedRCF_scored(f, point) ==
  CASE Computed(f) ->
  [forest |-> f,
   score |-> FDiv(SumSeq(ArrayFrom([i \in 1..f.numberOfTrees |->
                                      RandomCutTree_getAnomalyScore(f.trees[i], point)],
                                   f.numberOfTrees)),
                  f.numberOfTrees * Scale),
   expectedPoint |-> SimplifiedRCF_calculateExpectedPoint(f, point),
   attribution |->
     SimplifiedRCF_aggregateAttributions(
       f, ArrayFrom([i \in 1..f.numberOfTrees |->
                       RandomCutTree_getAttribution(f.trees[i], point)],
                    f.numberOfTrees))]

\* process(point): insert into every tree, then score against the updated trees
SimplifiedRCF_process(f, point) ==
  SimplifiedRCF_scored(
    [f EXCEPT !.trees = ArrayFrom([i \in 1..f.numberOfTrees |->
                                     RandomCutTree_insert(f.trees[i], point)],
                                  f.numberOfTrees),
              !.totalUpdates = f.totalUpdates + 1],
    point)

----------------------------------------------------------------------------
(* AnomalyDescriptor *)

AnomalyDescriptor_new(inputPoint, timestamp) ==
  [inputData |-> inputPoint,
   timestamp |-> timestamp,
   anomalyScore |-> 0,
   anomalyGrade |-> 0,
   expectedRCFPoint |-> Null,
   missingValues |-> Null,
   scoringStrategy |-> "EXPECTED_INVERSE_DEPTH",
   threshold |-> 0,
   confidence |-> 0,
   attribution |-> Null,
   totalUpdates |-> 0]

\* copyOf(): the arrays are sliced, so the copy has the same field values
AnomalyDescriptor_copyOf(d) ==
  [inputData |-> SubSeq(d.inputData, 1, Len(d.inputData)),
   timestamp |-> d.timestamp,
   anomalyScore |-> d.anomalyScore,
   anomalyGrade |-> d.anomalyGrade,
   expectedRCFPoint |-> d.expectedRCFPoint,
   missingValues |-> d.missingValues,
   scoringStrategy |-> d.scoringStrategy,
   threshold |-> d.threshold,
   confidence |-> d.confidence,
   attribution |-> d.attribution,
   totalUpdates |-> d.totalUpdates]

----------------------------------------------------------------------------
(* PredictorCorrector *)

DEFAULT_NOISE_SUPPRESSION_FACTOR == Dec(1, 1)

DEFAULT_RUN_ALLOWED == 2

PredictorCorrector_new(timeDecay, anomalyRate, adjust, baseDimension, randomSeed) ==
  [thresholders |-> <<BasicThresholder_new(timeDecay, timeDecay, adjust),
                      BasicThresholder_new(timeDecay, 0, FALSE)>>,
   baseDimension |-> baseDimension,
   randomSeed |-> randomSeed,
   lastScore |-> <<0, 0>>,
   noiseFactor |-> DEFAULT_NOISE_SUPPRESSION_FACTOR,
   autoAdjust |-> adjust,
   deviationsActual |-> IF adjust THEN ArrayFrom([i \in 1..baseDimension |-> Deviation_new(timeDecay)], baseDimension)
                        ELSE Null,
   deviationsExpected |-> IF adjust THEN ArrayFrom([i \in 1..baseDimension |-> Deviation_new(timeDecay)], baseDimension)
                          ELSE Null,
   ignoreNearExpectedFromAbove |-> Zeros(baseDimension),
   ignoreNearExpectedFromBelow |-> Zeros(baseDimension),
   ignoreNearExpectedFromAboveByRatio |-> Zeros(baseDimension),
   ignoreNearExpectedFromBelowByRatio |-> Zeros(baseDimension),
   runLength |-> 0,
   ignoreDrift |-> FALSE]

PredictorCorrector_getThresholder(pc) == pc.thresholders[1]

PredictorCorrector_setNoiseFactor(pc, factor) ==
  [pc EXCEPT !.noiseFactor = MathMax(0, MathMin(Scale, factor))]

PredictorCorrector_setIgnoreDrift(pc, ignore) == [pc EXCEPT !.ignoreDrift = ignore]

\* avgDrift > 0.1 ? Math.max(0.5, 1 - avgDrift) : 1.0
PredictorCorrector_driftFactor(avgDrift) ==
  IF FGt(avgDrift, Dec(1, 10)) THEN MathMax(Dec(1, 2), FSub(Scale, avgDrift)) ELSE Scale

\* calculateDriftFactor(current, previous)
PredictorCorrector_calculateDriftFactor(pc, current, previous) ==
  LET n == Min2(Min2(Len(current.expectedRCFPoint), Len(previous.expectedRCFPoint)),
                pc.baseDimension)
      counted == {i \in 1..n : previous.expectedRCFPoint[i] # 0}
  IN IF current.expectedRCFPoint = Null \/ previous.expectedRCFPoint = Null THEN Scale
     ELSE IF counted = {} THEN Scale
     ELSE PredictorCorrector_driftFactor(
            FDiv(SumSeq(ArrayFrom(
                          [i \in 1..n |->
                             IF i \in counted
                             THEN FDiv(FAbs(FSub(current.expectedRCFPoint[i],
                                                 previous.expectedRCFPoint[i])),
                                       FAbs(previous.expectedRCFPoint[i]))
                             ELSE 0],
                          n)),
                 Cardinality(counted) * Scale))

\* applyCorrection, first loop: the estimators of the actual and expected values
PredictorCorrector_updateDeviations(pc, inputData, expectedPoint) ==
  [pc EXCEPT
     !.deviationsActual =
        ArrayFrom([i \in 1..pc.baseDimension |->
                     IF i <= Len(inputData)
                     THEN Deviation_update(pc.deviationsActual[i], inputData[i])
                     ELSE pc.deviationsActual[i]],
                  pc.baseDimension),
     !.deviationsExpected =
        ArrayFrom([i \in 1..pc.baseDimension |->
                     IF i <= Len(inputData)
                     THEN Deviation_update(pc.deviationsExpected[i], At(expectedPoint, i))
                     ELSE pc.deviationsExpected[i]],
                  pc.baseDimension)]

\* expected !== 0 ? actual / expected : 1
PredictorCorrector_ratio(actual, expected) ==
  IF expected # 0 THEN FDiv(actual, expected) ELSE Scale

\* the two tests of the second loop that clear shouldSuppress, at position i
PredictorCorrector_outside(pc, i, diff, ratio) ==
  \/ FGt(diff, pc.ignoreNearExpectedFromAbove[i])
  \/ FLt(diff, 0 - pc.ignoreNearExpectedFromBelow[i])
  \/ FGt(ratio, FAdd(Scale, pc.ignoreNearExpectedFromAboveByRatio[i]))
  \/ FLt(ratio, FSub(Scale, pc.ignoreNearExpectedFromBelowByRatio[i]))

PredictorCorrector_shouldSuppress(pc, inputData, expectedPoint) ==
  \A i \in 1..Min2(Len(inputData), pc.baseDimension) :
     ~PredictorCorrector_outside(
        pc, i, FSub(inputData[i], At(expectedPoint, i)),
        PredictorCorrector_ratio(inputData[i], At(expectedPoint, i)))

\* the noise factor applied whatever the run length
PredictorCorrector_suppress_anyRun(pc, description) ==
  IF PredictorCorrector_shouldSuppress(pc, description.inputData,
                                       description.expectedRCFPoint)
  THEN [description EXCEPT !.anomalyGrade = FMul(description.anomalyGrade, pc.noiseFactor)]
  ELSE description

\* description.anomalyGrade *= this.noiseFactor, when suppressing
PredictorCorrector_suppress(pc, description) ==
  IF /\ PredictorCorrector_shouldSuppress(pc, description.inputData,
                                          description.expectedRCFPoint)
     /\ pc.runLength < DEFAULT_RUN_ALLOWED
  THEN [description EXCEPT !.anomalyGrade = FMul(description.anomalyGrade, pc.noiseFactor)]
  ELSE description

\* description.anomalyGrade *= driftFactor, when there is a last descriptor
PredictorCorrector_correctDrift(pc, description, lastDescriptor, hasLast) ==
  IF ~pc.ignoreDrift /\ hasLast
  THEN [description EXCEPT
          !.anomalyGrade =
             FMul(description.anomalyGrade,
                  PredictorCorrector_calculateDriftFactor(pc, description, lastDescriptor))]
  ELSE description

\* applyCorrection(description, lastDescriptor): <<corrector, description>>.
\* The estimator arrays exist exactly when autoAdjust is set.
PredictorCorrector_applyCorrection(pc, description, lastDescriptor, hasLast) ==
  IF ~pc.autoAdjust THEN <<pc, description>>
  ELSE IF description.expectedRCFPoint = Null THEN <<pc, description>>
  ELSE <<PredictorCorrector_updateDeviations(pc, description.inputData,
                                             description.expectedRCFPoint),
         PredictorCorrector_correctDrift(pc, PredictorCorrector_suppress(pc, description),
                                         lastDescriptor, hasLast)>>

\* detect, the fields written to the description before the correction
PredictorCorrector_describe(description, rcfScore, threshold, grade, expectedPoint,
                            attribution) ==
  [description EXCEPT
     !.anomalyScore = rcfScore,
     !.threshold = threshold,
     !.anomalyGrade = grade,
     !.expectedRCFPoint = IF expectedPoint # Null THEN expectedPoint ELSE @,
     !.attribution = IF attribution # Null THEN attribution ELSE @]

\* detect, the thresholder and last score stored for the strategy
PredictorCorrector_scored(pc, strategyIndex, thresholder, rcfScore) ==
  [pc EXCEPT !.thresholders[strategyIndex] = thresholder,
             !.lastScore[strategyIndex] = rcfScore]

\* detect, last part: confidence from the updated thresholder
PredictorCorrector_withConfidence(description, thresholder, rcfScore) ==
  IF /\ BasicThresholder_isDeviationReady(thresholder)
     /\ FGt(BasicThresholder_getPrimaryStandardDeviation(thresholder), 0)
  THEN [description EXCEPT
          !.confidence =
             MathMin(Scale,
                     FDiv(FAbs(FSub(rcfScore, BasicThresholder_getPrimaryMean(thresholder))),
                          BasicThresholder_getPrimaryStandardDeviation(thresholder)))]
  ELSE description

\* detect counting the run by the corrected grade of the description
PredictorCorrector_finish_byCorrectedGrade(corrected, runLength, thresholder, rcfScore, grade) ==
  CASE Computed(corrected) ->
  <<[corrected[1] EXCEPT !.runLength = IF FGt(corrected[2].anomalyGrade, 0)
                                       THEN runLength + 1 ELSE 0],
    PredictorCorrector_withConfidence(corrected[2], thresholder, rcfScore)>>

\* detect, after the correction: run length and confidence
PredictorCorrector_finish(corrected, runLength, thresholder, rcfScore, grade) ==
  CASE Computed(corrected) ->
  <<[corrected[1] EXCEPT !.runLength = IF FGt(grade, 0) THEN runLength + 1 ELSE 0],
    PredictorCorrector_withConfidence(corrected[2], thresholder, rcfScore)>>

\* detect, with the grade from the updated thresholder
PredictorCorrector_graded(pc, description, lastDescriptor, hasLast, rcfScore, threshold,
                          expectedPoint, attribution, strategyIndex, thresholder, grade) ==
  CASE Computed(grade) ->
  PredictorCorrector_finish(
    IF pc.autoAdjust /\ FGt(grade, 0)
    THEN PredictorCorrector_applyCorrection(
           PredictorCorrector_scored(pc, strategyIndex, thresholder, rcfScore),
           PredictorCorrector_describe(description, rcfScore, threshold, grade,
                                       expectedPoint, attribution),
           lastDescriptor, hasLast)
    ELSE <<PredictorCorrector_scored(pc, strategyIndex, thresholder, rcfScore),
           PredictorCorrector_describe(description, rcfScore, threshold, grade,
                                       expectedPoint, attribution)>>,
    pc.runLength, thresholder, rcfScore, grade)

PredictorCorrector_updated(pc, description, lastDescriptor, hasLast, rcfScore, threshold,
                           expectedPoint, attribution, strategyIndex, thresholder) ==
  CASE Computed(thresholder) ->
  PredictorCorrector_graded(pc, description, lastDescriptor, hasLast, rcfScore, threshold,
                            expectedPoint, attribution, strategyIndex, thresholder,
                            BasicThresholder_getAnomalyGrade(thresholder, rcfScore))

PredictorCorrector_strategyIndex(description) ==
  IF description.scoringStrategy = "DISTANCE" THEN 2 ELSE 1

\* detect(description, lastDescriptor, rcfScore, threshold, expectedPoint,
\* attribution): <<corrector, description>>
PredictorCorrector_detect(pc, description, lastDescriptor, hasLast, rcfScore, threshold,
                          expectedPoint, attribution) ==
  PredictorCorrector_updated(
    pc, description, lastDescriptor, hasLast, rcfScore, threshold, expectedPoint,
    attribution, PredictorCorrector_strategyIndex(description),
    BasicThresholder_update(pc.thresholders[PredictorCorrector_strategyIndex(description)],
                            rcfScore))

----------------------------------------------------------------------------
(* ThresholdedRandomCutForest *)

TRCF_DEFAULT_SHINGLE_SIZE == 1

TRCF_DEFAULT_TIME_DECAY == Dec(1, 10000)

TRCF_DEFAULT_ANOMALY_RATE == Dec(5, 1000)

TRCF_DEFAULT_BOUNDING_BOX_CACHE_FRACTION == Dec(1, 1)

TRCF_DEFAULT_Z_FACTOR == Dec(25, 10)

\* an option that is absent, where the model tells it from 0
Undefined == 0 - 1000000000

NoForest == [kind |-> "null"]

NoError == [kind |-> "none"]

\* a configuration with every option absent: 0 and "" stand for undefined
\* (the constructor reads every numeric option through `||`, which treats 0
\* and undefined alike); autoAdjust is "undefined", "true" or "false";
\* boundingBoxCacheFraction is Undefined, 0 or a fraction
TRCFConfig_empty ==
  [dimensions |-> 0, shingleSize |-> 0, timeDecay |-> 0, anomalyRate |-> 0,
   forestMode |-> "", transformMethod |-> "", scoringStrategy |-> "",
   imputationMethod |-> "", startNormalization |-> 0, stopNormalization |-> 0,
   clipFactor |-> 0, autoAdjust |-> "undefined", absoluteThreshold |-> 0,
   zFactor |-> 0, randomSeed |-> 0, boundingBoxCacheFraction |-> Undefined]

\* new ThresholdedRandomCutForest(config), constructed when the clock reads `now`
TRCF_new(config, now) ==
  LET forestMode == IF config.forestMode = "" THEN "STANDARD" ELSE config.forestMode
      transformMethod == IF config.transformMethod = "" THEN "NORMALIZE"
                         ELSE config.transformMethod
      scoringStrategy == IF config.scoringStrategy = "" THEN "EXPECTED_INVERSE_DEPTH"
                         ELSE config.scoringStrategy
      shingleSize == IF config.shingleSize = 0 THEN TRCF_DEFAULT_SHINGLE_SIZE
                     ELSE config.shingleSize
      dimensions == IF config.dimensions = 0 THEN shingleSize ELSE config.dimensions
      inputLength == dimensions \div shingleSize
      preprocessorConfig ==
        [shingleSize |-> shingleSize,
         dimensions |-> IF forestMode = "TIME_AUGMENTED" THEN dimensions + shingleSize
                        ELSE dimensions,
         inputLength |-> inputLength,
         transformMethod |-> transformMethod,
         forestMode |-> forestMode,
         imputationMethod |-> IF config.imputationMethod = "" THEN "RCF"
                              ELSE config.imputationMethod,
         startNormalization |-> IF config.startNormalization = 0
                                THEN DEFAULT_START_NORMALIZATION
                                ELSE config.startNormalization,
         stopNormalization |-> config.stopNormalization,
         clipFactor |-> config.clipFactor,
         normalizeTime |-> forestMode = "TIME_AUGMENTED",
         weightTime |-> IF forestMode = "TIME_AUGMENTED" THEN Scale ELSE 0]
      timeDecay == IF config.timeDecay = 0 THEN TRCF_DEFAULT_TIME_DECAY ELSE config.timeDecay
      anomalyRate == IF config.anomalyRate = 0 THEN TRCF_DEFAULT_ANOMALY_RATE
                     ELSE config.anomalyRate
      autoAdjust == config.autoAdjust # "false"
      zFactor == IF config.zFactor = 0 THEN TRCF_DEFAULT_Z_FACTOR ELSE config.zFactor
      pc == PredictorCorrector_new(timeDecay, anomalyRate, autoAdjust, inputLength,
                                   SeedOrNow(config.randomSeed, now))
  IN [forestMode |-> forestMode,
      transformMethod |-> transformMethod,
      scoringStrategy |-> scoringStrategy,
      preprocessor |-> Preprocessor_new(preprocessorConfig),
      predictorCorrector |->
        [pc EXCEPT !.thresholders[1] = BasicThresholder_setZFactor(@, zFactor)],
      forest |-> NoForest,
      lastAnomalyDescriptor |-> AnomalyDescriptor_new(Zeros(inputLength), 0),
      config |-> config,
      totalUpdates |-> 0,
      boundingBoxCacheFraction |->
        IF config.boundingBoxCacheFraction = Undefined \/ config.boundingBoxCacheFraction = 0
        THEN TRCF_DEFAULT_BOUNDING_BOX_CACHE_FRACTION
        ELSE config.boundingBoxCacheFraction]

TRCF_setForest(t, forest) == [t EXCEPT !.forest = forest]

TRCF_setZFactor(t, value) ==
  [t EXCEPT !.predictorCorrector.thresholders[1] = BasicThresholder_setZFactor(@, value)]

\* forest.process(point) of whichever implementation was given to setForest
Forest_process(f, point) ==
  IF f.kind = "OptimizedRCF" THEN OptimizedRCF_process(f, point)
  ELSE SimplifiedRCF_process(f, point)

TRCF_calculateSimplifiedScore(point) ==
  FDiv(SumSeq(ArrayFrom([i \in 1..Len(point) |-> FAbs(point[i])], Len(point))), Len(point) * Scale)

TRCF_calculateExpectedPoint(t, shingledInput) ==
  LET inputLength == t.preprocessor.inputLength
      js(i) == {j \in 1..Len(shingledInput) : j >= i /\ (j - i) % inputLength = 0}
  IN ArrayFrom([i \in 1..inputLength |->
        IF js(i) = {} THEN 0
        ELSE FDiv(SumSeq(ArrayFrom([j \in 1..Len(shingledInput) |->
                            IF j \in js(i) THEN shingledInput[j] ELSE 0], Len(shingledInput))),
                  Cardinality(js(i)) * Scale)], inputLength)

TRCF_postProcess(description) ==
  LET grade == MathMax(0, MathMin(Scale, description.anomalyGrade))
  IN [description EXCEPT
        !.anomalyGrade = grade,
        !.confidence = IF IsNaN(@) \/ @ = 0 THEN grade ELSE @]

\* saveDescriptor accepting a grade of 0
TRCF_saveDescriptor_nonStrict(descriptor) == FGe(descriptor.anomalyGrade, 0)

TRCF_saveDescriptor(descriptor) == FGt(descriptor.anomalyGrade, 0)

\* augment stamping the record before the counter is raised
TRCF_detected_stampedBefore(t, preprocessor, forest, detected) ==
  CASE Computed(detected) ->
  <<[t EXCEPT !.preprocessor = preprocessor,
              !.forest = forest,
              !.predictorCorrector = detected[1],
              !.totalUpdates = t.totalUpdates + 1],
    [TRCF_postProcess(detected[2]) EXCEPT !.totalUpdates = t.totalUpdates]>>

\* augment, last part: post-processing and the update counter
TRCF_detected(t, preprocessor, forest, detected) ==
  CASE Computed(detected) ->
  <<[t EXCEPT !.preprocessor = preprocessor,
              !.forest = forest,
              !.predictorCorrector = detected[1],
              !.totalUpdates = t.totalUpdates + 1],
    [TRCF_postProcess(detected[2]) EXCEPT !.totalUpdates = t.totalUpdates + 1]>>

\* augment, from the forest's result: threshold, then detection
TRCF_scored(t, description, preprocessor, rcfResult) ==
  CASE Computed(rcfResult) ->
  TRCF_detected(
    t, preprocessor, rcfResult.forest,
    PredictorCorrector_detect(
      t.predictorCorrector,
      [description EXCEPT !.scoringStrategy = t.scoringStrategy],
      t.lastAnomalyDescriptor, TRUE, rcfResult.score,
      BasicThresholder_getThreshold(PredictorCorrector_getThresholder(t.predictorCorrector),
                                    rcfResult.score),
      rcfResult.expectedPoint, rcfResult.attribution))

\* augment, from the preprocessor's result: the forest's score, or the
\* simplified score when no forest was set
TRCF_preprocessed(t, description, preprocessed) ==
  CASE Computed(preprocessed) ->
  TRCF_scored(
    t, description, preprocessed.preprocessor,
    IF t.forest.kind # "null"
    THEN Forest_process(t.forest, preprocessed.point)
    ELSE [forest |-> t.forest,
          score |-> TRCF_calculateSimplifiedScore(preprocessed.point),
          expectedPoint |-> TRCF_calculateExpectedPoint(t, preprocessed.shingledInput),
          attribution |-> Null])

\* augment(description): <<detector, description>>
TRCF_augment(t, description) ==
  TRCF_preprocessed(
    t, description,
    Preprocessor_process(t.preprocessor, description.inputData, description.timestamp,
                         description.missingValues))

\* if (this.saveDescriptor(description)) this.lastAnomalyDescriptor = description.copyOf()
TRCF_remember(t, description) ==
  IF TRCF_saveDescriptor(description)
  THEN [t EXCEPT !.lastAnomalyDescriptor = AnomalyDescriptor_copyOf(description)]
  ELSE t

\* new AnomalyDescriptor(point, timestamp) with the strategy and the missing
\* indices set
TRCF_describe(t, point, timestamp, missingValues) ==
  [AnomalyDescriptor_new(point, timestamp) EXCEPT
     !.scoringStrategy = t.scoringStrategy,
     !.missingValues = missingValues]

RECURSIVE TRCF_validateMissingValues_offByOne(_, _, _)
\* validateMissingValues accepting an index equal to dataLength
TRCF_validateMissingValues_offByOne(missingValues, dataLength, k) ==
  IF k > Len(missingValues) THEN NoError
  ELSE IF missingValues[k] < 0
       THEN [kind |-> "Missing value index cannot be negative"]
  ELSE IF missingValues[k] > dataLength
       THEN [kind |-> "Missing value index exceeds data length",
             idx |-> missingValues[k], dataLength |-> dataLength]
  ELSE TRCF_validateMissingValues_offByOne(missingValues, dataLength, k + 1)

RECURSIVE TRCF_validateMissingValues(_, _, _)
\* validateMissingValues(missingValues, dataLength), from position k: the
\* error of the first index that is negative or not below dataLength
TRCF_validateMissingValues(missingValues, dataLength, k) ==
  IF k > Len(missingValues) THEN NoError
  ELSE IF missingValues[k] < 0
       THEN [kind |-> "Missing value index cannot be negative"]
  ELSE IF missingValues[k] >= dataLength
       THEN [kind |-> "Missing value index exceeds data length",
             idx |-> missingValues[k], dataLength |-> dataLength]
  ELSE TRCF_validateMissingValues(missingValues, dataLength, k + 1)

\* validateTimestamps accepting equal neighbours
TRCF_validateTimestamps_nonStrict(timestamps, dataLength) ==
  LET bad == {i \in 2..Len(timestamps) : timestamps[i] < timestamps[i - 1]}
  IN IF Len(timestamps) # dataLength
     THEN [kind |-> "Timestamps length must equal data length",
           length |-> Len(timestamps), dataLength |-> dataLength]
     ELSE IF bad # {}
     THEN [kind |-> "Timestamps must be strictly ascending at index",
           index |-> (CHOOSE i \in bad : \A j \in bad : i <= j) - 1]
     ELSE NoError

\* validateTimestamps(timestamps, dataLength)
TRCF_validateTimestamps(timestamps, dataLength) ==
  LET bad == {i \in 2..Len(timestamps) : timestamps[i] <= timestamps[i - 1]}
  IN IF Len(timestamps) # dataLength
     THEN [kind |-> "Timestamps length must equal data length",
           length |-> Len(timestamps), dataLength |-> dataLength]
     ELSE IF bad # {}
     THEN [kind |-> "Timestamps must be strictly ascending at index",
           index |-> (CHOOSE i \in bad : \A j \in bad : i <= j) - 1]
     ELSE NoError

\* generateMissingIndicesArray(point): the 0-based positions of the NaN values
TRCF_generateMissingIndicesArray(point) ==
  LET idx == ArrayFrom([i \in 1..Len(point) |-> i - 1], Len(point))
  IN SelectSeq(idx, LAMBDA i : IsNaN(point[i + 1]))

\* what a call gives back: the detector afterwards, whether it threw and
\* with what, and the records returned
TRCF_threw(t, error) ==
  [detector |-> t, threw |-> TRUE, error |-> error, results |-> <<>>]

TRCF_returned(t, results) ==
  [detector |-> t, threw |-> FALSE, error |-> NoError, results |-> results]

\* the cache fraction while a call runs: 1.0 when it was 0 at entry
\* (cacheDisabled), else what it was
TRCF_cacheDuringCall(t) ==
  IF t.boundingBoxCacheFraction = 0 THEN Scale ELSE t.boundingBoxCacheFraction

\* try: the call runs with the cache fraction of TRCF_cacheDuringCall
TRCF_try(t) == [t EXCEPT !.boundingBoxCacheFraction = TRCF_cacheDuringCall(t)]

\* finally: if (cacheDisabled) this.boundingBoxCacheFraction = 0, on return
\* and on throw alike
TRCF_finally(cacheDisabled, out) ==
  CASE Computed(out) ->
  IF cacheDisabled THEN [out EXCEPT !.detector.boundingBoxCacheFraction = 0] ELSE out

\* process, after the finally block: the snapshot, then the record
TRCF_snapshot(out) ==
  CASE Computed(out) ->
  IF out.threw THEN out
  ELSE [out EXCEPT !.detector = TRCF_remember(out.detector, out.results[1])]

\* process, after augment
TRCF_processed(augmented) ==
  CASE Computed(augmented) ->
  TRCF_returned(augmented[1], <<augmented[2]>>)

\* process, after the validation of the missing indices
TRCF_validated(t, inputPoint, timestamp, missingValues, error) ==
  IF error # NoError THEN TRCF_threw(t, error)
  ELSE TRCF_processed(TRCF_augment(t, TRCF_describe(t, inputPoint, timestamp, missingValues)))

\* process(inputPoint, timestamp, missingValues); missingValues is Null when
\* the argument is absent or empty
TRCF_process(t, inputPoint, timestamp, missingValues) ==
  TRCF_snapshot(
    TRCF_finally(
      t.boundingBoxCacheFraction = 0,
      TRCF_validated(TRCF_try(t), inputPoint, timestamp, missingValues,
                     IF Len(missingValues) > 0
                     THEN TRCF_validateMissingValues(missingValues, Len(inputPoint), 1)
                     ELSE NoError)))

\* the default filter of processSequentially: d => d.anomalyGrade > 0
TRCF_defaultFilter(description) == FGt(description.anomalyGrade, 0)

\* getTotalUpdates()
TRCF_getTotalUpdates(t) == t.totalUpdates

\* a loop that pushes every record, whatever the predicate returns
TRCF_filter_keepAll(filter, description) == TRUE

\* filter(description) for the predicates given to processSequentially:
\* "default" is the argument left out, "all" is () => true, "none" is
\* () => false
TRCF_filter(filter, description) ==
  CASE filter = "all" -> TRUE
    [] filter = "none" -> FALSE
    [] OTHER -> TRCF_defaultFilter(description)

RECURSIVE TRCF_batchLoop(_, _, _, _, _, _)
\* one round of the loop, after augment
TRCF_batchRound(data, actualTimestamps, filter, i, results, augmented) ==
  CASE Computed(augmented) ->
  TRCF_batchLoop(TRCF_remember(augmented[1], augmented[2]), data, actualTimestamps, filter,
                 i + 1,
                 IF TRCF_filter(filter, augmented[2]) THEN Append(results, augmented[2])
                 ELSE results)

\* the loop of processSequentially from point i; a throw discards the records
TRCF_batchLoop(t, data, actualTimestamps, filter, i, results) ==
  CASE Computed(<<t, results>>) ->
  IF i > Len(data) THEN TRCF_returned(t, results)
  ELSE IF Len(data[i]) # t.preprocessor.inputLength
  THEN TRCF_threw(t, [kind |-> "Data point length does not match expected",
                      length |-> Len(data[i]),
                      inputLength |-> t.preprocessor.inputLength])
  ELSE TRCF_batchRound(
         data, actualTimestamps, filter, i, results,
         TRCF_augment(t, TRCF_describe(t, data[i], actualTimestamps[i],
                                       TRCF_generateMissingIndicesArray(data[i]))))

\* processSequentially, after the validation of the timestamps
TRCF_batch(t, data, actualTimestamps, filter, error) ==
  IF error # NoError THEN TRCF_threw(t, error)
  ELSE TRCF_finally(t.boundingBoxCacheFraction = 0,
                    TRCF_batchLoop(TRCF_try(t), data, actualTimestamps, filter, 1, <<>>))

\* processSequentially(data, timestamps, filter); hasTimestamps is FALSE
\* when the timestamps are absent
TRCF_processSequentially(t, data, timestamps, hasTimestamps, filter) ==
  IF Len(data) = 0 THEN TRCF_returned(t, <<>>)
  ELSE IF hasTimestamps
  THEN TRCF_batch(t, data, timestamps, filter,
                  TRCF_validateTimestamps(timestamps, Len(data)))
  ELSE TRCF_batch(t, data,
                  ArrayFrom([i \in 1..Len(data) |-> t.preprocessor.internalTimeStamp + i],
                            Len(data)),
                  filter, NoError)

----------------------------------------------------------------------------
(* The state: a detector under arbitrary calls, a second detector built    *)
(* from the same configuration, a forest on its own, a thresholder on its  *)
(* own.  Each specification below drives some of these and leaves the       *)
(* others as constructed.                                                    *)

VARIABLES det, last, detB, lastB, rcf, rcfOut, th, thUpdates, calls, heap, blob, streak,
          rng

vars ==
  <<det, last, detB, lastB, rcf, rcfOut, th, thUpdates, calls, heap, blob, streak, rng>>

\* the forest handed to setForest, or none
Forest_new(kind, config, now) ==
  IF kind = "OptimizedRCF" THEN OptimizedRCF_new(config, now)
  ELSE IF kind = "SimplifiedRCF" THEN SimplifiedRCF_new(config, now)
  ELSE NoForest

\* new ThresholdedRandomCutForest(config) followed by setForest(new <kind>(forestConfig))
Detector_new(kind, config, forestConfig, now) ==
  TRCF_setForest(TRCF_new(config, now), Forest_new(kind, forestConfig, now))

\* what a call did: its arguments, whether it threw, the records it returned
\* and the detector as it was when the call began
CallRecord(op, data, timestamps, hasTimestamps, missingValues, filter, out, before) ==
  [op |-> op, data |-> data, timestamps |-> timestamps, hasTimestamps |-> hasTimestamps,
   missingValues |-> missingValues, filter |-> filter, threw |-> out.threw,
   error |-> out.error, results |-> out.results, before |-> before]

NoCall(t) ==
  CallRecord("none", <<>>, <<>>, FALSE, Null, "default",
             [threw |-> FALSE, error |-> NoError, results |-> <<>>], t)

MaxCalls == 2

NumberOfTrees == 2

SampleSize == 2

One == Dec(1, 1)

Ten == Dec(10, 1)

ForestKinds == {"null", "OptimizedRCF", "SimplifiedRCF"}

Seeds == {0, 42, 0 - 6}

\* the values Date.now() returns at the two constructions
Clock == {777, 123456}

ForestConfig(seed) ==
  [dimensions |-> 1, numberOfTrees |-> NumberOfTrees, sampleSize |-> SampleSize,
   randomSeed |-> seed]

DetectorConfigs ==
  {[TRCFConfig_empty EXCEPT !.dimensions = 1, !.shingleSize = 1, !.randomSeed = seed,
                            !.startNormalization = start, !.autoAdjust = adjust] :
     seed \in {42}, start \in {2}, adjust \in {"undefined", "false"}}

\* the configurations that leave autoAdjust at its default
DefaultDetectorConfigs == {config \in DetectorConfigs : config.autoAdjust = "undefined"}

Points == {<<One>>, <<Ten>>, <<NaN>>}

WrongLengthPoints == {<<One, One>>}

MissingArguments == {Null, <<0>>, <<0 - 1>>, <<0, 1>>}

Batches ==
  {<<>>, <<<<One>>>>, <<<<One>>, <<Ten>>>>, <<<<Ten>>, <<Ten>>>>, <<<<One>>, <<NaN>>>>,
   <<<<Ten>>, <<One, One>>>>}

TimestampArguments == {<<>>, <<1>>, <<1, 2>>, <<2, 1>>, <<1, 1>>}

Idle == [kind |-> "idle"]

Init ==
  /\ \E kind \in ForestKinds, config \in DefaultDetectorConfigs :
       det = Detector_new(kind, config, ForestConfig(config.randomSeed), 777)
  /\ last = NoCall(det)
  /\ detB = Idle /\ lastB = Idle /\ rcf = Idle /\ rcfOut = Idle /\ th = Idle
  /\ thUpdates = 0
  /\ heap = Idle /\ blob = Idle /\ streak = Idle /\ rng = Idle
  /\ calls = 0

\* the call returns or throws: the detector is the one it left, and the
\* call is recorded
Called(op, data, timestamps, hasTimestamps, missingValues, out) ==
  /\ det' = out.detector
  /\ last' = CallRecord(op, data, timestamps, hasTimestamps, missingValues, "default", out,
                        det)

\* processSequentially with the predicate `filter` returns or throws
CalledFiltered(data, timestamps, hasTimestamps, filter, out) ==
  /\ det' = out.detector
  /\ last' = CallRecord("processSequentially", data, timestamps, hasTimestamps, Null,
                        filter, out, det)

\* det.process(inputPoint, timestamp, missingValues)
Process ==
  /\ calls < MaxCalls
  /\ \E inputPoint \in Points \cup WrongLengthPoints, missingValues \in MissingArguments :
       Called("process", <<inputPoint>>, <<det.totalUpdates + 1>>, TRUE, missingValues,
              TRCF_process(det, inputPoint, det.totalUpdates + 1, missingValues))
  /\ calls' = calls + 1
  /\ UNCHANGED <<detB, lastB, rcf, rcfOut, th, thUpdates, heap, blob, streak, rng>>

\* det.processSequentially(data) and det.processSequentially(data, timestamps)
ProcessSequentially ==
  /\ calls < MaxCalls
  /\ \E data \in Batches, hasTimestamps \in BOOLEAN, timestamps \in TimestampArguments :
       /\ hasTimestamps \/ timestamps = <<>>
       /\ CalledFiltered(data, timestamps, hasTimestamps, "default",
                         TRCF_processSequentially(det, data, timestamps, hasTimestamps,
                                                  "default"))
  /\ calls' = calls + 1
  /\ UNCHANGED <<detB, lastB, rcf, rcfOut, th, thUpdates, heap, blob, streak, rng>>

Next == Process \/ ProcessSequentially

Spec == Init /\ [][Next]_vars

\* the missing indices of the last call that process must reject, by position
InvalidMissing == {k \in 1..Len(last.missingValues) :
                     last.missingValues[k] < 0 \/ last.missingValues[k] >= Len(last.data[1])}

FirstInvalidMissing == last.missingValues[CHOOSE k \in InvalidMissing : \A j \in InvalidMissing : k <= j]

\* the positions (from 2) of the last call's timestamps that are not above
\* their predecessor
NotAscending == {i \in 2..Len(last.timestamps) : last.timestamps[i] <= last.timestamps[i - 1]}

\* the positions of the last call's data points whose length is not the
\* detector's input length
WrongLength == {i \in 1..Len(last.data) :
                  Len(last.data[i]) # last.before.preprocessor.inputLength}

\* C1: every record process or processSequentially returns has a grade g
\* with 0 <= g <= 1
C1_GradeWithinUnitInterval ==
  \A i \in 1..Len(last.results) :
    FGe(last.results[i].anomalyGrade, 0) /\ FLe(last.results[i].anomalyGrade, Scale)

\* C3: process called with a missing index that is negative or not below the
\* point's length throws the error of the first such index ("cannot be
\* negative", or "exceeds data length" with the index and the length), and
\* leaves the detector exactly as it was before the call
C3_InvalidMissingIndexRejected ==
  (last.op = "process" /\ InvalidMissing # {}) =>
    /\ last.threw
    /\ last.error = IF FirstInvalidMissing < 0
                    THEN [kind |-> "Missing value index cannot be negative"]
                    ELSE [kind |-> "Missing value index exceeds data length",
                          idx |-> FirstInvalidMissing, dataLength |-> Len(last.data[1])]
    /\ det = last.before

\* a detector that has accepted a point rejects process([1.0], 2, [0, 1])
\* citing index 1 and length 1
C3_Witness ==
  /\ last.op = "process"
  /\ last.missingValues = <<0, 1>>
  /\ last.data = <<<<One>>>>
  /\ last.threw
  /\ last.error.kind = "Missing value index exceeds data length"
  /\ last.before.totalUpdates = 1
  /\ det.totalUpdates = 1

C5_WrongLengthRejected ==
  (last.op # "none" /\ WrongLength # {}) => last.threw /\ det = last.before

----------------------------------------------------------------------------
(* A BasicThresholder driven directly through its public methods *)

MaxThUpdates == 3

ThDiscounts == {0, Dec(1, 4)}

ThScores == {0, Dec(3, 1), NaN}

ThAbsoluteThresholds == {Dec(2, 1)}

ThInitialThresholds == {Dec(1, 2)}

ThMinimumScores == {2}

ThZFactors == {Dec(3, 1)}

ThInit ==
  /\ \E discount \in ThDiscounts, adjust \in BOOLEAN :
       th = BasicThresholder_new(discount, 0, adjust)
  /\ thUpdates = 0
  /\ heap = Idle /\ blob = Idle /\ streak = Idle /\ rng = Idle
  /\ det = Idle /\ last = Idle /\ detB = Idle /\ lastB = Idle
  /\ rcf = Idle /\ rcfOut = Idle
  /\ calls = 0

ThUnused == <<det, last, detB, lastB, rcf, rcfOut, calls, heap, blob, streak, rng>>

\* th.update(score)
ThUpdate ==
  /\ thUpdates < MaxThUpdates
  /\ \E score \in ThScores : th' = BasicThresholder_update(th, score)
  /\ thUpdates' = thUpdates + 1
  /\ UNCHANGED ThUnused

\* th.updatePrimary(score)
ThUpdatePrimary ==
  /\ thUpdates < MaxThUpdates
  /\ \E score \in ThScores : th' = BasicThresholder_updatePrimary(th, score)
  /\ thUpdates' = thUpdates + 1
  /\ UNCHANGED ThUnused

\* th.setAbsoluteThreshold(v)
ThSetAbsoluteThreshold ==
  /\ \E v \in ThAbsoluteThresholds : th' = BasicThresholder_setAbsoluteThreshold(th, v)
  /\ UNCHANGED <<thUpdates, ThUnused>>

\* th.setInitialThreshold(v)
ThSetInitialThreshold ==
  /\ \E v \in ThInitialThresholds : th' = BasicThresholder_setInitialThreshold(th, v)
  /\ UNCHANGED <<thUpdates, ThUnused>>

\* th.setMinimumScores(v)
ThSetMinimumScores ==
  /\ \E v \in ThMinimumScores : th' = BasicThresholder_setMinimumScores(th, v)
  /\ UNCHANGED <<thUpdates, ThUnused>>

\* th.setZFactor(v)
ThSetZFactor ==
  /\ \E v \in ThZFactors : th' = BasicThresholder_setZFactor(th, v)
  /\ UNCHANGED <<thUpdates, ThUnused>>

\* th.setScoreDifferencing(v)
ThSetScoreDifferencing ==
  /\ \E v \in {0} : th' = BasicThresholder_setScoreDifferencing(th, v)
  /\ UNCHANGED <<thUpdates, ThUnused>>

ThNext ==
  \/ ThUpdate
  \/ ThUpdatePrimary
  \/ ThSetAbsoluteThreshold
  \/ ThSetInitialThreshold
  \/ ThSetMinimumScores
  \/ ThSetZFactor
  \/ ThSetScoreDifferencing

SpecThresholder == ThInit /\ [][ThNext]_vars

\* C6: a thresholder that has received fewer than minimumScores update calls
\* answers getThreshold(score) with its configured initial threshold, whatever
\* the score
C6_WarmUpThresholdIsInitial ==
  thUpdates < th.minimumScores =>
    \A score \in ThScores : BasicThresholder_getThreshold(th, score) = th.initialThreshold

\* one update received of the two required, every setter used, and the
\* initial threshold set away from both its default and the absolute floor
C6_Witness ==
  /\ thUpdates = 1
  /\ th.minimumScores = 2
  /\ th.scoreDifferencing = 0
  /\ th.initialThreshold = Dec(1, 2)
  /\ th.absoluteThreshold = Dec(2, 1)
  /\ BasicThresholder_getThreshold(th, Dec(3, 1)) = Dec(1, 2)

\* C7: in every state, warm-up included, the threshold the thresholder
\* answers is at least its configured absolute floor
C7_ThresholdAtLeastAbsoluteFloor ==
  \A score \in ThScores :
    FGe(BasicThresholder_getThreshold(th, score), th.absoluteThreshold)

----------------------------------------------------------------------------
(* A forest driven directly through process *)

MaxForestUpdates == 5

\* a sample size whose tenth part exceeds one update
LargeSampleSize == 40

ForestSampleSizes == {SampleSize, LargeSampleSize}

ForestPoints == {<<One>>, <<Ten>>}

ForestInit ==
  /\ \E kind \in {"OptimizedRCF", "SimplifiedRCF"}, seed \in Seeds,
        sampleSize \in ForestSampleSizes :
       rcf = Forest_new(kind, [ForestConfig(seed) EXCEPT !.sampleSize = sampleSize], 777)
  /\ rcfOut = Idle
  /\ det = Idle /\ last = Idle /\ detB = Idle /\ lastB = Idle /\ th = Idle
  /\ thUpdates = 0
  /\ heap = Idle /\ blob = Idle /\ streak = Idle /\ rng = Idle
  /\ calls = 0

\* the updates a forest has accepted
Forest_updates(f) == IF f.kind = "OptimizedRCF" THEN f.updateCount ELSE f.totalUpdates

\* the call returned out: the forest is the one it left, and the result is kept
ForestReturned(out) ==
  /\ rcf' = out.forest
  /\ rcfOut' = [kind |-> "result", score |-> out.score]

\* rcf.process(point)
ForestProcess ==
  /\ Forest_updates(rcf) < MaxForestUpdates
  /\ \E point \in ForestPoints : ForestReturned(Forest_process(rcf, point))
  /\ UNCHANGED <<det, last, detB, lastB, th, thUpdates, calls, heap, blob, streak, rng>>

ForestNext == ForestProcess

SpecForest == ForestInit /\ [][ForestNext]_vars

\* C9: a forest returns score 0 from process while the updates it has
\* accepted, the processed point included, are fewer than a tenth of its
\* sample size
C9_ScoreZeroBeforeReady ==
  (rcfOut # Idle /\ 10 * Forest_updates(rcf) < rcf.sampleSize) => rcfOut.score = 0

\* C10: no tree of a forest holds more points than the sample size
C10_ReservoirWithinSampleSize ==
  \A i \in 1..rcf.numberOfTrees :
    IF rcf.kind = "OptimizedRCF"
    THEN /\ Len(rcf.trees[i].nodes) = rcf.trees[i].size
         /\ rcf.trees[i].size <= rcf.trees[i].maxSize
    ELSE Len(rcf.trees[i].points) <= rcf.trees[i].sampleSize

----------------------------------------------------------------------------
(* Two detectors built from one configuration and fed the same points *)

MaxPairCalls == 4

PairPoints == {<<One>>, <<Ten>>}

\* the default transform and none, under each seed
PairConfigs ==
  {[config EXCEPT !.randomSeed = seed, !.transformMethod = transformMethod] :
     config \in DefaultDetectorConfigs, seed \in Seeds, transformMethod \in {"", "NONE"}}

\* the detector and its forest share the seed; the two constructions read
\* the clock separately
PairInit ==
  /\ \E kind \in ForestKinds, config \in PairConfigs, nowA \in Clock, nowB \in Clock :
       /\ det = Detector_new(kind, config, ForestConfig(config.randomSeed), nowA)
       /\ detB = Detector_new(kind, config, ForestConfig(config.randomSeed), nowB)
  /\ last = NoCall(det)
  /\ lastB = NoCall(detB)
  /\ rcf = Idle /\ rcfOut = Idle /\ th = Idle
  /\ thUpdates = 0
  /\ heap = Idle /\ blob = Idle /\ streak = Idle /\ rng = Idle
  /\ calls = 0

\* the second detector's call returns or throws
CalledB(op, data, timestamps, hasTimestamps, missingValues, out) ==
  /\ detB' = out.detector
  /\ lastB' = CallRecord(op, data, timestamps, hasTimestamps, missingValues, "default",
                         out, detB)

\* det.process(point, timestamp) and detB.process(point, timestamp)
PairProcess ==
  /\ calls < MaxPairCalls
  /\ \E point \in PairPoints :
       /\ Called("process", <<point>>, <<calls + 1>>, TRUE, Null,
                 TRCF_process(det, point, calls + 1, Null))
       /\ CalledB("process", <<point>>, <<calls + 1>>, TRUE, Null,
                  TRCF_process(detB, point, calls + 1, Null))
  /\ calls' = calls + 1
  /\ UNCHANGED <<rcf, rcfOut, th, thUpdates, heap, blob, streak, rng>>

PairNext == PairProcess

SpecPair == PairInit /\ [][PairNext]_vars

\* the scores, thresholds and grades of the records a call returned
Scores(call) ==
  [i \in 1..Len(call.results) |->
     <<call.results[i].anomalyScore, call.results[i].threshold,
       call.results[i].anomalyGrade>>]

\* C2: two detectors built from the same configuration and the same
\* randomSeed, 0 included, and fed the same points return the same scores,
\* thresholds and grades point for point
C2_SameSeedSameScores == Scores(last) = Scores(lastB)

----------------------------------------------------------------------------
(* A detector fed a constant stream followed by one spike *)

StreamLength == 300

StreamInit ==
  /\ \E kind \in ForestKinds, config \in DetectorConfigs :
       det = Detector_new(kind, config, ForestConfig(config.randomSeed), 777)
  /\ last = NoCall(det)
  /\ detB = Idle /\ lastB = Idle /\ rcf = Idle /\ rcfOut = Idle /\ th = Idle
  /\ thUpdates = 0
  /\ heap = Idle /\ blob = Idle /\ streak = Idle /\ rng = Idle
  /\ calls = 0

\* det.process([1.0], timestamp), StreamLength times
StreamFeed ==
  /\ calls < StreamLength
  /\ Called("process", <<<<One>>>>, <<calls + 1>>, TRUE, Null,
            TRCF_process(det, <<One>>, calls + 1, Null))
  /\ calls' = calls + 1
  /\ UNCHANGED <<detB, lastB, rcf, rcfOut, th, thUpdates, heap, blob, streak, rng>>

\* det.process([10.0], timestamp), once the stream has been fed
StreamSpike ==
  /\ calls = StreamLength
  /\ Called("process", <<<<Ten>>>>, <<calls + 1>>, TRUE, Null,
            TRCF_process(det, <<Ten>>, calls + 1, Null))
  /\ calls' = calls + 1
  /\ UNCHANGED <<detB, lastB, rcf, rcfOut, th, thUpdates, heap, blob, streak, rng>>

StreamNext == StreamFeed \/ StreamSpike

SpecStream == StreamInit /\ [][StreamNext]_vars

\* C8: after StreamLength points of value 1.0, the record returned for a
\* following point of value 10.0 has grade > 0
C8_SpikeAfterConstantStreamGraded ==
  calls = StreamLength + 1 => FGt(last.results[1].anomalyGrade, 0)

----------------------------------------------------------------------------
(* A detector under each configuration option, with a twin that receives   *)
(* every batch under the accept-all predicate                               *)

MaxOptionCalls == 2

\* one input channel, normalization from the third point
OptionBase ==
  [TRCFConfig_empty EXCEPT !.dimensions = 1, !.shingleSize = 1, !.randomSeed = 42,
                           !.startNormalization = 2]

\* the configurations whose feature vectors a forest receives
ForestModeConfigs ==
  {[OptionBase EXCEPT !.forestMode = forestMode, !.shingleSize = shingleSize,
                      !.dimensions = shingleSize] :
     forestMode \in {"STANDARD", "TIME_AUGMENTED"}, shingleSize \in {1, 2}}

\* a cache fraction of 0, each scoring strategy with a z-factor above the
\* floor, and a z-factor below the floor
ThresholdConfigs ==
  {[OptionBase EXCEPT !.boundingBoxCacheFraction = 0],
   [OptionBase EXCEPT !.scoringStrategy = "EXPECTED_INVERSE_DEPTH", !.zFactor = Dec(3, 1)],
   [OptionBase EXCEPT !.scoringStrategy = "DISTANCE", !.zFactor = Dec(3, 1)],
   [OptionBase EXCEPT !.scoringStrategy = "MULTI_MODE", !.zFactor = Dec(1, 1)]}

\* inputLength x shingleSize, plus shingleSize in time-augmented mode
FeatureLength(config) ==
  config.dimensions + (IF config.forestMode = "TIME_AUGMENTED" THEN config.shingleSize ELSE 0)

\* a sample size that keeps every point of a run in the reservoir
OptionSampleSize == 8

\* one tree over vectors of the configured length
OptionForestConfig(config) ==
  [dimensions |-> FeatureLength(config), numberOfTrees |-> 1,
   sampleSize |-> OptionSampleSize, randomSeed |-> config.randomSeed]

OptionPoints == {<<One>>, <<Ten>>}

OptionBatches == {<<<<Ten>>, <<One>>>>, <<<<One>>, <<Ten>>>>, <<<<Ten>>, <<One, One>>>>}

OptionTimestamps == {<<>>, <<5, 7>>}

OptionZFactors == {Dec(1, 1), Dec(4, 1)}

\* the predicates given to processSequentially
Filters == {"default", "all", "none"}

\* the instances with a forest are given the default predicate only
OptionFilters == IF det.forest.kind = "null" THEN Filters ELSE {"default"}

OptionInit ==
  /\ \/ \E config \in ForestModeConfigs :
          det = Detector_new("OptimizedRCF", config, OptionForestConfig(config), 777)
     \/ \E config \in ThresholdConfigs :
          det = Detector_new("null", config, ForestConfig(config.randomSeed), 777)
  /\ last = NoCall(det)
  /\ detB = det
  /\ lastB = last
  /\ rcf = Idle /\ rcfOut = Idle /\ th = Idle
  /\ thUpdates = 0
  /\ heap = Idle /\ blob = Idle /\ streak = Idle /\ rng = Idle
  /\ calls = 0

\* det.process(point, timestamp); the twin follows
OptionProcess ==
  /\ calls < MaxOptionCalls
  /\ \E point \in OptionPoints :
       Called("process", <<point>>, <<det.totalUpdates + 1>>, TRUE, Null,
              TRCF_process(det, point, det.totalUpdates + 1, Null))
  /\ detB' = det'
  /\ lastB' = last'
  /\ calls' = calls + 1
  /\ UNCHANGED <<rcf, rcfOut, th, thUpdates, heap, blob, streak, rng>>

\* det.processSequentially(data, timestamps, filter); the twin receives the
\* same call with () => true
OptionProcessSequentially ==
  /\ calls < MaxOptionCalls
  /\ \E data \in OptionBatches, timestamps \in OptionTimestamps, filter \in OptionFilters :
       /\ CalledFiltered(data, timestamps, timestamps # <<>>, filter,
                         TRCF_processSequentially(det, data, timestamps, timestamps # <<>>,
                                                  filter))
       /\ CalledB("processSequentially", data, timestamps, timestamps # <<>>, Null,
                  TRCF_processSequentially(det, data, timestamps, timestamps # <<>>, "all"))
  /\ calls' = calls + 1
  /\ UNCHANGED <<rcf, rcfOut, th, thUpdates, heap, blob, streak, rng>>

\* det.setZFactor(value); the twin follows
OptionSetZFactor ==
  /\ calls < MaxOptionCalls
  /\ \E value \in OptionZFactors :
       Called("setZFactor", <<<<value>>>>, <<>>, FALSE, Null,
              TRCF_returned(TRCF_setZFactor(det, value), <<>>))
  /\ detB' = det'
  /\ lastB' = last'
  /\ calls' = calls + 1
  /\ UNCHANGED <<rcf, rcfOut, th, thUpdates, heap, blob, streak, rng>>

OptionNext == OptionProcess \/ OptionProcessSequentially \/ OptionSetZFactor

SpecOptions == OptionInit /\ [][OptionNext]_vars

\* C12: every feature vector a tree of the forest holds, from the first
\* point on, has the length inputLength x shingleSize, plus shingleSize in
\* time-augmented mode
C12_FeatureLengthConstant ==
  det.forest.kind = "OptimizedRCF" =>
    \A i \in 1..det.forest.numberOfTrees :
      \A j \in 1..Len(det.forest.trees[i].nodes) :
        Len(det.forest.trees[i].nodes[j].point) = FeatureLength(det.config)

\* the records of grade > 0 among records, in order
PositiveRecords(records) == SelectSeq(records, LAMBDA d : FGt(d.anomalyGrade, 0))

\* C13: the last-accepted snapshot is the initial placeholder until a record
\* of grade > 0 is produced; after a call that returned it equals the last
\* record of grade > 0 among the records of the call's points (the twin's
\* accept-all result), or is what it was before the call if there is none;
\* a call that threw leaves it as it was or at a record of grade > 0
C13_SnapshotIsLastPositiveRecord ==
  /\ last.op = "none" =>
        det.lastAnomalyDescriptor =
          AnomalyDescriptor_new(Zeros(det.preprocessor.inputLength), 0)
  /\ last.op = "setZFactor" => det.lastAnomalyDescriptor = last.before.lastAnomalyDescriptor
  /\ (last.op \in {"process", "processSequentially"} /\ ~last.threw) =>
        det.lastAnomalyDescriptor =
          IF PositiveRecords(lastB.results) = <<>>
          THEN last.before.lastAnomalyDescriptor
          ELSE PositiveRecords(lastB.results)[Len(PositiveRecords(lastB.results))]
  /\ last.threw =>
        \/ det.lastAnomalyDescriptor = last.before.lastAnomalyDescriptor
        \/ FGt(det.lastAnomalyDescriptor.anomalyGrade, 0)

\* a point of grade 0 processed after a point of grade > 0: the snapshot is
\* still the earlier record, not the record returned
C13_Witness ==
  /\ last.op = "process"
  /\ ~last.threw
  /\ last.results[1].anomalyGrade = 0
  /\ last.results[1].totalUpdates = 2
  /\ FGt(last.before.lastAnomalyDescriptor.anomalyGrade, 0)
  /\ det.lastAnomalyDescriptor = last.before.lastAnomalyDescriptor
  /\ det.lastAnomalyDescriptor.totalUpdates = 1

\* a batch whose first record has grade > 0 and whose second has grade 0,
\* given the predicate () => false: nothing is returned and the snapshot is
\* the first record
C13_WitnessBatch ==
  /\ last.op = "processSequentially"
  /\ last.filter = "none"
  /\ ~last.threw
  /\ last.results = <<>>
  /\ Len(lastB.results) = 2
  /\ FGt(lastB.results[1].anomalyGrade, 0)
  /\ lastB.results[2].anomalyGrade = 0
  /\ det.lastAnomalyDescriptor = lastB.results[1]
  /\ det.lastAnomalyDescriptor # last.before.lastAnomalyDescriptor

----------------------------------------------------------------------------
(* Reservoir insertion under every equally likely draw *)

\* k equally likely values of JavaRandom.nextDouble(), j / k for j = 0..k-1,
\* as draws <<seed afterwards, high, low>>
EquallyLikelyDraws(random, k) ==
  {<<random, (j * Pow2(26) + k - 1) \div k, 0>> : j \in 0..(k - 1)}

\* k equally likely values of RandomCutTree.random(), j / k for j = 0..k-1,
\* as seeds
EquallyLikelySeeds(k) == {(j * LCG_MODULUS + k - 1) \div k : j \in 0..(k - 1)}

\* a point no stream of ForestPoints holds
FreshPoint == <<Dec(5, 1)>>

\* C11: once a tree's reservoir is full, the k-th point inserted replaces an
\* entry in exactly capacity of k equally likely draws and leaves the
\* reservoir as it was in the others
C11_ReplacesInCapacityOverK ==
  \A i \in 1..rcf.numberOfTrees :
    IF rcf.kind = "OptimizedRCF"
    THEN rcf.updateCount >= rcf.trees[i].maxSize =>
           Cardinality({d \in EquallyLikelyDraws(rcf.trees[i].random, rcf.updateCount + 1) :
                          OptimizedTree_replace(
                            rcf.trees[i], [point |-> FreshPoint, count |-> 1, depth |-> 0],
                            d).nodes # rcf.trees[i].nodes})
             = rcf.trees[i].maxSize
    ELSE rcf.totalUpdates >= rcf.trees[i].sampleSize =>
           Cardinality({s1 \in EquallyLikelySeeds(rcf.totalUpdates + 1) :
                          RandomCutTree_place(RandomCutTree_evict(rcf.trees[i], s1),
                                              FreshPoint).points # rcf.trees[i].points})
             = rcf.trees[i].sampleSize

----------------------------------------------------------------------------
(* The records a batch returns *)

\* what each predicate given to processSequentially answers for a record
Keeps(filter, d) ==
  (filter = "all") \/ (filter = "default" /\ d.anomalyGrade > 0 /\ ~IsNaN(d.anomalyGrade))

\* C18: a processSequentially call that returns has applied every point of
\* the batch to the model whatever the predicate (the detector is the one the
\* accept-all call leaves, one update per point); the accept-all result has
\* one record per input point, the i-th carrying the i-th point and
\* timestamp; the result is the subsequence, in order, of the accept-all
\* records the predicate keeps, grade > 0 for the default predicate
C18_BatchReturnsFilteredRecordsInOrder ==
  (last.op = "processSequentially" /\ ~last.threw) =>
    /\ ~lastB.threw
    /\ det = detB
    /\ det.totalUpdates = last.before.totalUpdates + Len(last.data)
    /\ Len(lastB.results) = Len(last.data)
    /\ \A i \in 1..Len(last.data) :
         /\ lastB.results[i].inputData = last.data[i]
         /\ lastB.results[i].totalUpdates = last.before.totalUpdates + i
         /\ last.hasTimestamps => lastB.results[i].timestamp = last.timestamps[i]
    /\ last.results = SelectSeq(lastB.results, LAMBDA d : Keeps(last.filter, d))

\* a batch of two points with timestamps under the default predicate: the
\* record of grade 0 is dropped, the record of grade > 0 is returned
C18_Witness ==
  /\ last.op = "processSequentially"
  /\ last.filter = "default"
  /\ last.hasTimestamps
  /\ ~last.threw
  /\ Len(lastB.results) = 2
  /\ lastB.results[1].anomalyGrade = 0
  /\ FGt(lastB.results[2].anomalyGrade, 0)
  /\ last.results = <<lastB.results[2]>>
  /\ last.results[1].timestamp = 7

----------------------------------------------------------------------------
(* The update counter *)

\* the points of a batch ahead of the first one of the wrong length
PointsAhead(data, inputLength) ==
  Cardinality({i \in 1..Len(data) : \A j \in 1..i : Len(data[j]) = inputLength})

\* the number of points a call has processed: none for a call that is not a
\* process or processSequentially call, one for a process call that returned,
\* the whole batch for a processSequentially call that returned, the points
\* ahead of the rejected one for a batch that threw
PointsProcessed(call) ==
  IF call.op = "process" THEN (IF call.threw THEN 0 ELSE 1)
  ELSE IF call.op = "processSequentially"
  THEN (IF ~call.threw THEN Len(call.data)
        ELSE IF call.error.kind = "Data point length does not match expected"
        THEN PointsAhead(call.data, call.before.preprocessor.inputLength)
        ELSE 0)
  ELSE 0

\* C19: getTotalUpdates() is 0 at construction and every call raises it by
\* the number of points the call processed, kept by the predicate or not; the
\* record of the i-th point of a call carries the counter at entry plus i
C19_TotalUpdatesCountsPoints ==
  /\ last.op = "none" => TRCF_getTotalUpdates(det) = 0
  /\ TRCF_getTotalUpdates(det) = TRCF_getTotalUpdates(last.before) + PointsProcessed(last)
  /\ (last.op \in {"process", "processSequentially"} /\ ~last.threw) =>
        /\ Len(lastB.results) = PointsProcessed(last)
        /\ \A i \in 1..Len(lastB.results) :
             lastB.results[i].totalUpdates = TRCF_getTotalUpdates(last.before) + i
        /\ \A i \in 1..Len(last.results) :
             \E j \in 1..Len(lastB.results) : last.results[i] = lastB.results[j]

\* a batch of two points under () => false after a point given to process:
\* nothing is returned, the counter is 3 and the records carry 2 and 3
C19_Witness ==
  /\ last.op = "processSequentially"
  /\ last.filter = "none"
  /\ ~last.threw
  /\ last.results = <<>>
  /\ TRCF_getTotalUpdates(last.before) = 1
  /\ TRCF_getTotalUpdates(det) = 3
  /\ lastB.results[1].totalUpdates = 2
  /\ lastB.results[2].totalUpdates = 3

----------------------------------------------------------------------------
(* The cache fraction around a call *)

\* C15: an instance configured with a cache fraction of exactly 0 has the
\* cache fraction 1.0 while a process or processSequentially call runs and 0
\* once the call has ended, whether it returned or threw
C15_CacheFractionRestored ==
  (det.config.boundingBoxCacheFraction = 0
     /\ last.op \in {"process", "processSequentially"}) =>
    /\ TRCF_try(last.before).boundingBoxCacheFraction = Scale
    /\ det.boundingBoxCacheFraction = 0

----------------------------------------------------------------------------
(* The z-factor of the thresholder that grades *)

\* the thresholder whose grade the records of t carry
GradingThresholder(t) ==
  t.predictorCorrector.thresholders[
    PredictorCorrector_strategyIndex([scoringStrategy |-> t.scoringStrategy])]

\* C20: under every scoring strategy the z-factor of the grading thresholder
\* is max(v, 2.0), v being the configured zFactor after construction and the
\* argument after setZFactor; process and processSequentially leave it alone
C20_GradingZFactorIsFlooredSetting ==
  /\ (last.op = "none" /\ det.config.zFactor # 0) =>
        GradingThresholder(det).zFactor = MathMax(det.config.zFactor, Dec(2, 1))
  /\ last.op = "setZFactor" =>
        GradingThresholder(det).zFactor = MathMax(last.data[1][1], Dec(2, 1))
  /\ last.op \in {"process", "processSequentially"} =>
        GradingThresholder(det).zFactor = GradingThresholder(last.before).zFactor

----------------------------------------------------------------------------
(* Records and arrays as objects: who holds a reference to what.  heap has   *)
(* the arrays and the records by address (0 is null), the arrays the caller  *)
(* created, the records process returned to the caller, the record the       *)
(* detector holds as lastAnomalyDescriptor, the number of the caller's      *)
(* writes and the number of calls made before the last of them.            *)

MaxAliasCalls == 2

MaxWrites == 1

\* the fields of an AnomalyDescriptor that hold an array
ArrayFields == <<"inputData", "expectedRCFPoint", "missingValues", "attribution">>

\* an array of its own holding values: <<heap, address>>; null stays null
Heap_store(h, values) ==
  IF values = Null THEN <<h, 0>>
  ELSE <<[h EXCEPT !.arrays = Append(@, values)], Len(h.arrays) + 1>>

\* a copy that is the array itself
Array_slice_sameArray(h, ref) == <<h, ref>>

\* array?.slice() || null: <<heap, address of the copy>>
Array_slice(h, ref) ==
  IF ref = 0 THEN <<h, 0>>
  ELSE <<[h EXCEPT !.arrays = Append(@, h.arrays[ref])], Len(h.arrays) + 1>>

RECURSIVE AnomalyDescriptor_sliced(_, _, _)
\* copyOf, the k-th array field sliced
AnomalyDescriptor_slicedField(copy, k, sliced) ==
  CASE Computed(sliced) ->
  AnomalyDescriptor_sliced(sliced[1], [copy EXCEPT ![ArrayFields[k]] = sliced[2]], k + 1)

\* copyOf from the k-th array field on: <<heap, copy>>
AnomalyDescriptor_sliced(h, copy, k) ==
  IF k > Len(ArrayFields) THEN <<h, copy>>
  ELSE AnomalyDescriptor_slicedField(copy, k, Array_slice(h, copy[ArrayFields[k]]))

\* the record `sliced` made is an object of its own: <<heap, address>>
Heap_record(sliced) ==
  CASE Computed(sliced) ->
  <<[sliced[1] EXCEPT !.descriptors = Append(@, sliced[2])], Len(sliced[1].descriptors) + 1>>

\* description.copyOf() of the record at address: <<heap, address of the copy>>
AnomalyDescriptor_copyOfAt(h, address) ==
  Heap_record(AnomalyDescriptor_sliced(h, h.descriptors[address], 1))

\* the array a reference leads to
ArrayAt(h, ref) == IF ref = 0 THEN Null ELSE h.arrays[ref]

\* the record at address as the code reads it, arrays followed
DescriptorAt(h, address) ==
  [h.descriptors[address] EXCEPT
     !.inputData = ArrayAt(h, @),
     !.expectedRCFPoint = ArrayAt(h, @),
     !.missingValues = ArrayAt(h, @),
     !.attribution = ArrayAt(h, @)]

\* new ThresholdedRandomCutForest: lastAnomalyDescriptor is
\* new AnomalyDescriptor(new Array(inputLength).fill(0), 0)
Heap_new(inputLength) ==
  [arrays |-> <<Zeros(inputLength)>>,
   descriptors |-> <<[AnomalyDescriptor_new(1, 0) EXCEPT
                        !.expectedRCFPoint = 0, !.missingValues = 0, !.attribution = 0]>>,
   callerArrays |-> {},
   returned |-> {},
   lastAnomalyDescriptor |-> 1,
   writes |-> 0,
   writtenAfter |-> 0]

\* if (this.saveDescriptor(description)) this.lastAnomalyDescriptor =
\* description.copyOf(); return description
TRCF_rememberCopy(copied) ==
  CASE Computed(copied) -> [copied[1] EXCEPT !.lastAnomalyDescriptor = copied[2]]

TRCF_rememberAt(h, address) ==
  IF TRCF_saveDescriptor(DescriptorAt(h, address))
  THEN TRCF_rememberCopy(AnomalyDescriptor_copyOfAt(h, address))
  ELSE h

\* process returns the description
TRCF_returnedAt(described) ==
  CASE Computed(described) ->
  TRCF_rememberAt([described[1] EXCEPT !.returned = @ \cup {described[2]}], described[2])

\* the description after augment: inputData and missingValues are the
\* caller's arrays, expectedRCFPoint and attribution the arrays detect was
\* given
TRCF_describedAt(record, inputRef, missingRef, expected, attribution) ==
  CASE Computed(attribution) ->
  Heap_record(<<attribution[1],
                [record EXCEPT
                   !.inputData = inputRef,
                   !.missingValues = IF record.missingValues = Null THEN 0 ELSE missingRef,
                   !.expectedRCFPoint = expected[2],
                   !.attribution = attribution[2]]>>)

TRCF_expectedAt(record, inputRef, missingRef, expected) ==
  CASE Computed(expected) ->
  TRCF_describedAt(record, inputRef, missingRef, expected,
                   Heap_store(expected[1], record.attribution))

\* the heap after process(inputPoint, timestamp, missingValues), the
\* arguments being the arrays at inputRef and missingRef
TRCF_processAt(h, out, inputRef, missingRef) ==
  CASE Computed(out) ->
  IF out.threw THEN h
  ELSE TRCF_returnedAt(TRCF_expectedAt(out.results[1], inputRef, missingRef,
                                       Heap_store(h, out.results[1].expectedRCFPoint)))

\* the detector with the lastAnomalyDescriptor the heap holds
DetectorAt(t, h) ==
  [t EXCEPT !.lastAnomalyDescriptor = DescriptorAt(h, h.lastAnomalyDescriptor)]

AliasForestKinds == {"null", "SimplifiedRCF"}

AliasMissingArguments == {Null, <<0>>}

\* the value the caller writes
Written == Dec(7, 1)

AliasInit ==
  /\ \E kind \in AliasForestKinds :
       det = Detector_new(kind, OptionBase, ForestConfig(OptionBase.randomSeed), 777)
  /\ last = NoCall(det)
  /\ detB = Idle /\ lastB = Idle /\ rcf = Idle /\ rcfOut = Idle /\ th = Idle
  /\ thUpdates = 0
  /\ heap = Heap_new(det.preprocessor.inputLength)
  /\ blob = Idle /\ streak = Idle /\ rng = Idle
  /\ calls = 0

\* the caller's two arrays exist; the call runs on the detector as the heap
\* has it
AliasCalled(inputPoint, missingValues, input, missing) ==
  CASE Computed(missing) ->
  /\ Called("process", <<inputPoint>>, <<det.totalUpdates + 1>>, TRUE, missingValues,
            TRCF_process(DetectorAt(det, heap), inputPoint, det.totalUpdates + 1,
                         missingValues))
  /\ heap' = TRCF_processAt(
               [missing[1] EXCEPT !.callerArrays = @ \cup ({input[2], missing[2]} \ {0})],
               [threw |-> last'.threw, results |-> last'.results], input[2], missing[2])

AliasInput(inputPoint, missingValues, input) ==
  CASE Computed(input) ->
  AliasCalled(inputPoint, missingValues, input, Heap_store(input[1], missingValues))

\* const p = [...]; const m = [...]; r = det.process(p, timestamp, m)
AliasProcess ==
  /\ calls < MaxAliasCalls
  /\ \E inputPoint \in OptionPoints, missingValues \in AliasMissingArguments :
       AliasInput(inputPoint, missingValues, Heap_store(heap, inputPoint))
  /\ calls' = calls + 1
  /\ UNCHANGED <<detB, lastB, rcf, rcfOut, th, thUpdates, blob, streak, rng>>

\* the arrays the caller has a reference to: the ones it created and the
\* ones the returned records hold
CallerReach(h) ==
  (h.callerArrays
     \cup {h.descriptors[r][ArrayFields[k]] : r \in h.returned, k \in 1..Len(ArrayFields)})
  \ {0}

\* a[i] = Written, a being the caller's array or r.inputData,
\* r.expectedRCFPoint, r.attribution, r.missingValues of a returned record r
AliasWriteElement ==
  /\ heap.writes < MaxWrites
  /\ \E ref \in CallerReach(heap) : \E i \in 1..Len(heap.arrays[ref]) :
       heap' = [heap EXCEPT !.arrays[ref][i] = Written, !.writes = @ + 1, !.writtenAfter = calls]
  /\ UNCHANGED <<det, last, detB, lastB, rcf, rcfOut, th, thUpdates, calls, blob, streak, rng>>

\* r.inputData = [Written], r.expectedRCFPoint = [Written], ... on a returned
\* record r
AliasWriteArrayField ==
  /\ heap.writes < MaxWrites
  /\ \E r \in heap.returned, k \in 1..Len(ArrayFields) :
       heap' = [heap EXCEPT !.arrays = Append(@, <<Written>>),
                            !.descriptors[r][ArrayFields[k]] = Len(heap.arrays) + 1,
                            !.writes = @ + 1, !.writtenAfter = calls]
  /\ UNCHANGED <<det, last, detB, lastB, rcf, rcfOut, th, thUpdates, calls, blob, streak, rng>>

\* r.anomalyGrade = Written; r.anomalyScore = Written; r.timestamp = 0 on a
\* returned record r
AliasWriteFields ==
  /\ heap.writes < MaxWrites
  /\ \E r \in heap.returned :
       heap' = [heap EXCEPT !.descriptors[r].anomalyGrade = Written,
                            !.descriptors[r].anomalyScore = Written,
                            !.descriptors[r].timestamp = 0,
                            !.writes = @ + 1, !.writtenAfter = calls]
  /\ UNCHANGED <<det, last, detB, lastB, rcf, rcfOut, th, thUpdates, calls, blob, streak, rng>>

AliasNext == AliasProcess \/ AliasWriteElement \/ AliasWriteArrayField \/ AliasWriteFields

SpecAlias == AliasInit /\ [][AliasNext]_vars

\* C14: the record the detector holds as lastAnomalyDescriptor is none of the
\* records process returned and holds none of the arrays the caller can
\* reach, and what the next call reads from it is what process saved,
\* whatever the caller has written since
C14_SnapshotNotAliased ==
  /\ heap.lastAnomalyDescriptor \notin heap.returned
  /\ \A k \in 1..Len(ArrayFields) :
       heap.descriptors[heap.lastAnomalyDescriptor][ArrayFields[k]] \notin CallerReach(heap)
  /\ DescriptorAt(heap, heap.lastAnomalyDescriptor) = det.lastAnomalyDescriptor

\* the first call returned a record of grade > 0, which was saved; the
\* caller then wrote to an array that record holds, and a second call was
\* made: the record no longer equals the saved one
C14_Witness ==
  /\ heap.writes > 0
  /\ heap.writtenAfter = 1
  /\ \E r \in heap.returned :
       /\ heap.descriptors[r].totalUpdates = det.lastAnomalyDescriptor.totalUpdates
       /\ FGt(heap.descriptors[r].anomalyGrade, 0)
       /\ heap.descriptors[r].anomalyGrade = det.lastAnomalyDescriptor.anomalyGrade
       /\ \E k \in 1..Len(ArrayFields) :
            /\ heap.descriptors[r][ArrayFields[k]] # 0
            /\ ArrayAt(heap, heap.descriptors[r][ArrayFields[k]])
                 # det.lastAnomalyDescriptor[ArrayFields[k]]
  /\ calls = MaxAliasCalls
  /\ last.before.totalUpdates = 1

----------------------------------------------------------------------------
(* A detector whose state is exported and imported into a new instance,    *)
(* both then given the same points                                          *)

MaxRestoreCalls == 3

\* AnomalyDetector.getState() of an initialized detector
AnomalyDetector_getState(t) == t.lastAnomalyDescriptor

\* fromState(state): an instance of the same configuration holding the
\* exported state
AnomalyDetector_fromState(kind, config, forestConfig, now, state) ==
  [Detector_new(kind, config, forestConfig, now) EXCEPT !.lastAnomalyDescriptor = state]

RestoreInit ==
  /\ \E kind \in ForestKinds, config \in DefaultDetectorConfigs :
       det = Detector_new(kind, config, ForestConfig(config.randomSeed), 777)
  /\ last = NoCall(det)
  /\ detB = Idle /\ lastB = Idle /\ rcf = Idle /\ rcfOut = Idle /\ th = Idle
  /\ thUpdates = 0
  /\ heap = Idle /\ blob = Idle /\ streak = Idle /\ rng = Idle
  /\ calls = 0

\* det.process(point, timestamp) before the export
RestoreProcess ==
  /\ calls < MaxRestoreCalls
  /\ detB = Idle
  /\ \E point \in OptionPoints :
       Called("process", <<point>>, <<det.totalUpdates + 1>>, TRUE, Null,
              TRCF_process(det, point, det.totalUpdates + 1, Null))
  /\ calls' = calls + 1
  /\ UNCHANGED <<detB, lastB, rcf, rcfOut, th, thUpdates, heap, blob, streak, rng>>

\* const state = det.getState(); detB = fromState(state)
RestoreImport ==
  /\ calls > 0
  /\ detB = Idle
  /\ detB' = AnomalyDetector_fromState(det.forest.kind, det.config,
                                       ForestConfig(det.config.randomSeed), 777,
                                       AnomalyDetector_getState(det))
  /\ lastB' = NoCall(detB')
  /\ UNCHANGED <<det, last, rcf, rcfOut, th, thUpdates, calls, heap, blob, streak, rng>>

\* the same point to the original and to the restored detector
RestoreContinue ==
  /\ calls < MaxRestoreCalls
  /\ detB # Idle
  /\ \E point \in OptionPoints :
       /\ Called("process", <<point>>, <<det.totalUpdates + 1>>, TRUE, Null,
                 TRCF_process(det, point, det.totalUpdates + 1, Null))
       /\ CalledB("process", <<point>>, <<det.totalUpdates + 1>>, TRUE, Null,
                  TRCF_process(detB, point, det.totalUpdates + 1, Null))
  /\ calls' = calls + 1
  /\ UNCHANGED <<rcf, rcfOut, th, thUpdates, heap, blob, streak, rng>>

RestoreNext == RestoreProcess \/ RestoreImport \/ RestoreContinue

SpecRestore == RestoreInit /\ [][RestoreNext]_vars

\* C16: after the export and import, every point given to both detectors
\* gets the same score from the restored detector as from the original
C16_RestoredScoresIdentical ==
  (detB # Idle /\ lastB.op = "process") =>
    /\ last.threw = lastB.threw
    /\ Len(last.results) = Len(lastB.results)
    /\ \A i \in 1..Len(last.results) :
         last.results[i].anomalyScore = lastB.results[i].anomalyScore

----------------------------------------------------------------------------
(* StateSerializer: the checkpoint blob.  A Buffer is a sequence of bytes.  *)

MaxTampers == 1

Byte == Pow2(8)

\* header.writeUInt32LE(value, offset) on its own: the four bytes
WriteUInt32LE(value) ==
  <<value % Byte, (value \div Byte) % Byte, (value \div (Byte * Byte)) % Byte,
    (value \div (Byte * Byte * Byte)) % Byte>>

\* an unsigned 32-bit number as <<high half, low half>>
UInt32(value) == <<value \div (Byte * Byte), value % (Byte * Byte)>>

\* buffer.readUInt32LE(offset), offset counted from 0, as <<high, low>>; the
\* caller has checked offset + 4 <= buffer.length
ReadUInt32LE(buffer, offset) ==
  <<buffer[offset + 3] + Byte * buffer[offset + 4],
    buffer[offset + 1] + Byte * buffer[offset + 2]>>

\* start + size for a size read from a buffer, or length when that is less
EndOf(start, size, length) ==
  IF size[1] # 0 \/ start + size[2] > length THEN length ELSE start + size[2]

\* the magic number 'TRCF'
CHECKPOINT_MAGIC == 1414677318

CHECKPOINT_VERSION == 1

CHECKPOINT_HEADER_LENGTH == 16

RECURSIVE StateSerializer_calculateChecksum(_)
\* calculateChecksum(buffer): checksum = (checksum + buffer[i]) & 0xFFFFFFFF;
\* the sum of a buffer of fewer than 2^23 bytes is below 2^31, where the
\* mask leaves it as it is; the sum is taken half by half
StateSerializer_calculateChecksum(buffer) ==
  IF Len(buffer) = 0 THEN 0
  ELSE IF Len(buffer) = 1 THEN buffer[1]
  ELSE StateSerializer_calculateChecksum(SubSeq(buffer, 1, Len(buffer) \div 2))
         + StateSerializer_calculateChecksum(
             SubSeq(buffer, Len(buffer) \div 2 + 1, Len(buffer)))

\* the last n elements: array.slice(-n)
SliceLast(s, n) == IF Len(s) <= n THEN s ELSE SubSeq(s, Len(s) - n + 1, Len(s))

\* the scores toCompactFormat keeps
RECENT_SCORES_KEPT == 100

\* toCompactFormat(state), for the fields of the state the model carries
StateSerializer_toCompactFormat(state) ==
  [c |-> [d |-> state.config.dimensions],
   f |-> [u |-> state.forest.totalUpdates],
   th |-> [ct |-> state.threshold.currentThreshold,
           rs |-> SliceLast(state.threshold.recentScores, RECENT_SCORES_KEPT)]]

\* fromCompactFormat(compact)
StateSerializer_fromCompactFormat(compact) ==
  [config |-> [dimensions |-> compact.c.d],
   forest |-> [totalUpdates |-> compact.f.u],
   threshold |-> [currentThreshold |-> compact.th.ct, recentScores |-> compact.th.rs]]

\* the value null, which is no number
JS_null == 0 - 1500000000

\* the byte that stands for the text `null`; the numbers of a state are
\* below it
JSON_NULL == Byte - 1

\* JSON.stringify of a number: NaN (like the infinities) is written as null
JSON_number(x) == IF IsNaN(x) THEN JSON_NULL ELSE x

\* JSON.parse of a number or of null
JSON_value(token) == IF token = JSON_NULL THEN JS_null ELSE token

\* Buffer.from(JSON.stringify(compact)): the text as bytes, here the
\* numbers in order, the scores behind their count
JSON_stringify(compact) ==
  <<JSON_number(compact.c.d), JSON_number(compact.f.u), JSON_number(compact.th.ct),
    Len(compact.th.rs)>>
    \o [i \in 1..Len(compact.th.rs) |-> JSON_number(compact.th.rs[i])]

\* whether JSON.parse accepts the text
JSON_wellFormed(text) == Len(text) >= 4 /\ Len(text) = 4 + text[4]

\* JSON.parse(text) of a well-formed text
JSON_parse(text) ==
  [c |-> [d |-> JSON_value(text[1])], f |-> [u |-> JSON_value(text[2])],
   th |-> [ct |-> JSON_value(text[3]),
           rs |-> [i \in 1..(Len(text) - 4) |-> JSON_value(text[i + 4])]]]

RECURSIVE ByteSum(_)
\* the sum of the bytes of a buffer, taken half by half
ByteSum(buffer) ==
  IF Len(buffer) = 0 THEN 0
  ELSE IF Len(buffer) = 1 THEN buffer[1]
  ELSE ByteSum(SubSeq(buffer, 1, Len(buffer) \div 2))
         + ByteSum(SubSeq(buffer, Len(buffer) \div 2 + 1, Len(buffer)))

\* the two bytes every gzip stream begins with
GZIP_ID == <<31, 139>>

\* the trailer of a gzip stream: a check value and the length of the content
Gzip_trailer(content) == <<ByteSum(content) % Byte, Len(content) % Byte>>

\* zlib.gzipSync(buffer): the content framed by header and trailer
Zlib_gzipSync(buffer) == GZIP_ID \o buffer \o Gzip_trailer(buffer)

\* the content of a gzip stream
Gzip_content(compressed) == SubSeq(compressed, 3, Len(compressed) - 2)

\* whether zlib.gunzipSync accepts the stream
Zlib_accepts(compressed) ==
  /\ Len(compressed) >= 4
  /\ SubSeq(compressed, 1, 2) = GZIP_ID
  /\ SubSeq(compressed, Len(compressed) - 1, Len(compressed))
       = Gzip_trailer(Gzip_content(compressed))

\* checkpoint(state): header (magic, version, size, checksum) and the
\* compressed compact state
StateSerializer_framed(compressed) ==
  CASE Computed(compressed) ->
  WriteUInt32LE(CHECKPOINT_MAGIC) \o WriteUInt32LE(CHECKPOINT_VERSION)
    \o WriteUInt32LE(Len(compressed))
    \o WriteUInt32LE(StateSerializer_calculateChecksum(compressed))
    \o compressed

StateSerializer_checkpoint(state) ==
  StateSerializer_framed(Zlib_gzipSync(JSON_stringify(StateSerializer_toCompactFormat(state))))

\* a state no restore returned
NoState ==
  [config |-> [dimensions |-> 0], forest |-> [totalUpdates |-> 0],
   threshold |-> [currentThreshold |-> 0, recentScores |-> <<>>]]

\* restoreCheckpoint throws: nothing is returned; gunzipped tells whether
\* gunzipSync had been called
Restore_threw(error, gunzipped) ==
  [threw |-> TRUE, error |-> error, state |-> NoState, gunzipped |-> gunzipped]

Restore_returned(state) ==
  [threw |-> FALSE, error |-> "none", state |-> state, gunzipped |-> TRUE]

\* restoreCheckpoint, decompress and parse
StateSerializer_decompressed(compressed) ==
  IF ~Zlib_accepts(compressed) THEN Restore_threw("zlib: incorrect data", TRUE)
  ELSE IF ~JSON_wellFormed(Gzip_content(compressed))
  THEN Restore_threw("SyntaxError", TRUE)
  ELSE Restore_returned(StateSerializer_fromCompactFormat(JSON_parse(Gzip_content(compressed))))

\* restoreCheckpoint passing the payload on whatever its checksum
StateSerializer_verified_unchecked(compressed, checksum) ==
  StateSerializer_decompressed(compressed)

\* restoreCheckpoint, verify checksum
StateSerializer_verified(compressed, checksum) ==
  IF UInt32(StateSerializer_calculateChecksum(compressed)) # checksum
  THEN Restore_threw("Checkpoint corrupted", FALSE)
  ELSE StateSerializer_decompressed(compressed)

\* checkpoint.slice(start, start + size): the bytes from start on, size of
\* them or as many as the buffer has
BufferSlice(buffer, start, size) == SubSeq(buffer, start + 1, EndOf(start, size, Len(buffer)))

\* restoreCheckpoint(checkpoint); readUInt32LE throws a RangeError when the
\* buffer ends before the four bytes do
StateSerializer_restoreCheckpoint(checkpoint) ==
  IF Len(checkpoint) < 4 THEN Restore_threw("RangeError", FALSE)
  ELSE IF ReadUInt32LE(checkpoint, 0) # UInt32(CHECKPOINT_MAGIC)
  THEN Restore_threw("Invalid checkpoint format", FALSE)
  ELSE IF Len(checkpoint) < CHECKPOINT_HEADER_LENGTH THEN Restore_threw("RangeError", FALSE)
  ELSE StateSerializer_verified(
         BufferSlice(checkpoint, CHECKPOINT_HEADER_LENGTH, ReadUInt32LE(checkpoint, 8)),
         ReadUInt32LE(checkpoint, 12))

\* the states checkpointed
CheckpointStates ==
  {[config |-> [dimensions |-> d], forest |-> [totalUpdates |-> u],
    threshold |-> [currentThreshold |-> 5, recentScores |-> rs]] :
     d \in {1}, u \in {0, 3}, rs \in {<<>>, <<9>>, <<9, 0>>}}

\* the restore that has not been made
NotRestored == [threw |-> FALSE, error |-> "not restored", state |-> NoState,
                gunzipped |-> FALSE]

\* const blob = StateSerializer.checkpoint(state)
CheckpointInit ==
  /\ \E state \in CheckpointStates :
       blob = [state |-> state, bytes |-> StateSerializer_checkpoint(state), tampers |-> 0,
               result |-> NotRestored]
  /\ det = Idle /\ last = Idle /\ detB = Idle /\ lastB = Idle
  /\ rcf = Idle /\ rcfOut = Idle /\ th = Idle
  /\ thUpdates = 0
  /\ heap = Idle /\ streak = Idle /\ rng = Idle
  /\ calls = 0

CheckpointUnused ==
  <<det, last, detB, lastB, rcf, rcfOut, th, thUpdates, heap, calls, streak, rng>>

\* a byte of the blob changes in storage
CheckpointTamper ==
  /\ blob.tampers < MaxTampers
  /\ \E i \in 1..Len(blob.bytes) : \E byte \in {0, (blob.bytes[i] + 1) % Byte} :
       /\ byte # blob.bytes[i]
       /\ blob' = [blob EXCEPT !.bytes[i] = byte, !.tampers = @ + 1, !.result = NotRestored]
  /\ UNCHANGED CheckpointUnused

\* the blob loses its tail in storage
CheckpointTruncate ==
  /\ blob.tampers < MaxTampers
  /\ \E n \in 0..(Len(blob.bytes) - 1) :
       blob' = [blob EXCEPT !.bytes = SubSeq(@, 1, n), !.tampers = @ + 1,
                            !.result = NotRestored]
  /\ UNCHANGED CheckpointUnused

\* StateSerializer.restoreCheckpoint(blob)
CheckpointRestore ==
  /\ blob.result = NotRestored
  /\ blob' = [blob EXCEPT !.result = StateSerializer_restoreCheckpoint(blob.bytes)]
  /\ UNCHANGED CheckpointUnused

CheckpointNext == CheckpointTamper \/ CheckpointTruncate \/ CheckpointRestore

SpecCheckpoint == CheckpointInit /\ [][CheckpointNext]_vars

\* the magic value the blob begins with differs from the fixed one
MagicDiffers(bytes) == Len(bytes) < 4 \/ SubSeq(bytes, 1, 4) # <<70, 67, 82, 84>>

\* the bytes behind the 16 bytes of the header, as many as the header's
\* size field (bytes 9 to 12, the lowest first) says
Payload(bytes) ==
  SubSeq(bytes, 17,
         IF bytes[11] # 0 \/ bytes[12] # 0 \/ 16 + bytes[9] + 256 * bytes[10] > Len(bytes)
         THEN Len(bytes) ELSE 16 + bytes[9] + 256 * bytes[10])

\* the checksum in the header (bytes 13 to 16, the lowest first) differs
\* from the sum of the payload's bytes
ChecksumDiffers(bytes) ==
  Len(bytes) < 16 \/ SubSeq(bytes, 13, 16) # WriteUInt32LE(ByteSum(Payload(bytes)))

\* C17: a restore of a blob whose magic value differs from 'TRCF', or whose
\* header checksum differs from the checksum of its payload, throws and
\* returns no state, and gunzipSync has not been called when it throws
C17_RestoreFailsClosed ==
  (blob.result # NotRestored /\ (MagicDiffers(blob.bytes) \/ ChecksumDiffers(blob.bytes))) =>
    /\ blob.result.threw
    /\ blob.result.state = NoState
    /\ ~blob.result.gunzipped

\* a byte of the payload was changed, the magic value is intact, and the
\* restore threw 'Checkpoint corrupted'
C17_Witness ==
  /\ blob.tampers = 1
  /\ ~MagicDiffers(blob.bytes)
  /\ Len(blob.bytes) = Len(StateSerializer_checkpoint(blob.state))
  /\ SubSeq(blob.bytes, 1, 16) = SubSeq(StateSerializer_checkpoint(blob.state), 1, 16)
  /\ blob.result.threw
  /\ blob.result.error = "Checkpoint corrupted"

----------------------------------------------------------------------------
(* A fresh thresholder, score differencing left at its default, under      *)
(* update(score) calls that are always made again                          *)

MaxReadyUpdates == 12

\* no decay, the decay of the readiness test, a half, and full decay
ReadyDiscounts == {0, Dec(1, 100), Dec(1, 2), Scale}

ReadyScores == {0, Dec(3, 1)}

ReadyInit ==
  /\ \E discount \in ReadyDiscounts : th = BasicThresholder_new(discount, 0, FALSE)
  /\ thUpdates = 0
  /\ heap = Idle /\ blob = Idle /\ streak = Idle /\ rng = Idle
  /\ det = Idle /\ last = Idle /\ detB = Idle /\ lastB = Idle
  /\ rcf = Idle /\ rcfOut = Idle
  /\ calls = 0

\* th.update(score)
ReadyUpdate ==
  /\ thUpdates < MaxReadyUpdates
  /\ \E score \in ReadyScores : th' = BasicThresholder_update(th, score)
  /\ thUpdates' = thUpdates + 1
  /\ UNCHANGED ThUnused

ReadyNext == ReadyUpdate

\* an update call is counted: a step of ReadyUpdate, seen by its counter
ReadyCalled == thUpdates < MaxReadyUpdates /\ thUpdates' = thUpdates + 1

\* the caller goes on calling update
SpecReady == ReadyInit /\ [][ReadyNext]_vars /\ WF_thUpdates(ReadyCalled)

----------------------------------------------------------------------------
(* The flag of a record against the threshold the record reports *)

\* isAnomaly of the result formatResult makes of a record
AnomalyDetector_isAnomaly(descriptor) == FGt(descriptor.anomalyGrade, 0)

\* C22: under every scoring strategy a record is flagged (grade > 0) exactly
\* when its score is above the threshold the same record reports
C22_FlaggedIffScoreAboveThreshold ==
  \A i \in 1..Len(last.results) :
    AnomalyDetector_isAnomaly(last.results[i])
      <=> FGt(last.results[i].anomalyScore, last.results[i].threshold)

----------------------------------------------------------------------------
(* A detector without a forest, fed points past the thresholder's warm-up, *)
(* under each scoring strategy                                              *)

MaxGradeCalls == 24

\* the calls that pass the same point, before the points vary
GradeWarmUp == 20

\* one input channel, the points passed to the score untransformed
GradeConfigs ==
  {[TRCFConfig_empty EXCEPT !.dimensions = 1, !.shingleSize = 1, !.randomSeed = 42,
                            !.transformMethod = "NONE",
                            !.scoringStrategy = scoringStrategy] :
     scoringStrategy \in {"EXPECTED_INVERSE_DEPTH", "DISTANCE"}}

GradePoints == {<<One>>, <<Dec(12, 10)>>, <<Dec(3, 1)>>}

GradeInputs == IF calls < GradeWarmUp THEN {<<One>>} ELSE GradePoints

GradeInit ==
  /\ \E config \in GradeConfigs : det = TRCF_new(config, 777)
  /\ last = NoCall(det)
  /\ detB = Idle /\ lastB = Idle /\ rcf = Idle /\ rcfOut = Idle /\ th = Idle
  /\ thUpdates = 0
  /\ heap = Idle /\ blob = Idle /\ streak = Idle /\ rng = Idle
  /\ calls = 0

\* det.process(point, timestamp)
GradeProcess ==
  /\ calls < MaxGradeCalls
  /\ \E point \in GradeInputs :
       Called("process", <<point>>, <<calls + 1>>, TRUE, Null,
              TRCF_process(det, point, calls + 1, Null))
  /\ calls' = calls + 1
  /\ UNCHANGED <<detB, lastB, rcf, rcfOut, th, thUpdates, heap, blob, streak, rng>>

GradeNext == GradeProcess

SpecGrade == GradeInit /\ [][GradeNext]_vars

----------------------------------------------------------------------------
(* A detector without a forest whose corrector is configured through       *)
(* getPredictorCorrector() before the first point                           *)

MaxCorrectorCalls == 4

\* setIgnoreNearExpected(dimension, fromBelow, fromAbove, fromBelowByRatio,
\* fromAboveByRatio); dimension counts from 0
PredictorCorrector_setIgnoreNearExpected(pc, dimension, fromBelow, fromAbove, fromBelowByRatio, fromAboveByRatio) ==
  IF dimension >= 0 /\ dimension < pc.baseDimension
  THEN [pc EXCEPT !.ignoreNearExpectedFromBelow[dimension + 1] = fromBelow,
                  !.ignoreNearExpectedFromAbove[dimension + 1] = fromAbove,
                  !.ignoreNearExpectedFromBelowByRatio[dimension + 1] = fromBelowByRatio,
                  !.ignoreNearExpectedFromAboveByRatio[dimension + 1] = fromAboveByRatio]
  ELSE pc

PredictorCorrector_getRunLength(pc) == pc.runLength

TRCF_getPredictorCorrector(t) == t.predictorCorrector

\* one input channel shingled over two points, so that the expected value of
\* a point is the mean of the last two inputs
CorrectorConfigs ==
  {[TRCFConfig_empty EXCEPT !.dimensions = 2, !.shingleSize = 2, !.randomSeed = 42,
                            !.transformMethod = "NONE", !.autoAdjust = adjust] :
     adjust \in {"undefined", "false"}}

CorrectorPoints == {<<One>>, <<Dec(4, 1)>>, <<Dec(44, 10)>>}

\* arguments of setNoiseFactor: below 0, 0, inside (0, 1) and above 1
NoiseFactors == {0 - Scale, 0, Dec(1, 2), Dec(2, 1)}

\* arguments of setIgnoreNearExpected: wide bands, wide absolute bands only,
\* and a dimension the corrector does not have
NearExpected ==
  {<<0, Dec(5, 1), Dec(5, 1), Dec(5, 1), Dec(5, 1)>>,
   <<0, Dec(5, 1), Dec(5, 1), 0, 0>>,
   <<1, Dec(5, 1), Dec(5, 1), Dec(5, 1), Dec(5, 1)>>}

\* consecutive most recent points with a positive grade in the returned
\* record, and with a positive grade from the thresholder, after the last
\* call and before it
NoStreak == [output |-> 0, thresholder |-> 0, outputBefore |-> 0, thresholderBefore |-> 0]

CorrectorInit ==
  /\ \E config \in CorrectorConfigs : det = TRCF_new(config, 777)
  /\ last = NoCall(det)
  /\ detB = Idle /\ lastB = Idle /\ rcf = Idle /\ rcfOut = Idle /\ th = Idle
  /\ thUpdates = 0
  /\ heap = Idle /\ blob = Idle
  /\ streak = NoStreak /\ rng = Idle
  /\ calls = 0

CorrectorUnused ==
  <<last, detB, lastB, rcf, rcfOut, th, thUpdates, calls, heap, blob, streak, rng>>

\* det.getPredictorCorrector().setNoiseFactor(factor)
CorrectorSetNoiseFactor ==
  /\ calls = 0
  /\ \E factor \in NoiseFactors :
       det' = [det EXCEPT !.predictorCorrector =
                            PredictorCorrector_setNoiseFactor(@, factor)]
  /\ UNCHANGED CorrectorUnused

\* det.getPredictorCorrector().setIgnoreNearExpected(...)
CorrectorSetIgnoreNearExpected ==
  /\ calls = 0
  /\ \E a \in NearExpected :
       det' = [det EXCEPT !.predictorCorrector =
                            PredictorCorrector_setIgnoreNearExpected(@, a[1], a[2], a[3],
                                                                     a[4], a[5])]
  /\ UNCHANGED CorrectorUnused

\* det.getPredictorCorrector().setIgnoreDrift(ignore)
CorrectorSetIgnoreDrift ==
  /\ calls = 0
  /\ \E ignore \in BOOLEAN :
       det' = [det EXCEPT !.predictorCorrector = PredictorCorrector_setIgnoreDrift(@, ignore)]
  /\ UNCHANGED CorrectorUnused

\* the grade the thresholder of the record's strategy, as detect left it,
\* computes for the record's score
ThresholderGrade(t, record) ==
  BasicThresholder_getAnomalyGrade(
    TRCF_getPredictorCorrector(t).thresholders[PredictorCorrector_strategyIndex(record)],
    record.anomalyScore)

\* the streaks after the detector `t` returned `record`
Streak_next(s, t, record) ==
  [output |-> IF FGt(record.anomalyGrade, 0) THEN s.output + 1 ELSE 0,
   thresholder |-> IF FGt(ThresholderGrade(t, record), 0) THEN s.thresholder + 1 ELSE 0,
   outputBefore |-> s.output,
   thresholderBefore |-> s.thresholder]

\* det.process(point, timestamp)
CorrectorProcess ==
  /\ calls < MaxCorrectorCalls
  /\ \E point \in CorrectorPoints :
       Called("process", <<point>>, <<calls + 1>>, TRUE, Null,
              TRCF_process(det, point, calls + 1, Null))
  /\ streak' = Streak_next(streak, det', last'.results[1])
  /\ calls' = calls + 1
  /\ UNCHANGED <<detB, lastB, rcf, rcfOut, th, thUpdates, heap, blob, rng>>

CorrectorNext ==
  \/ CorrectorSetNoiseFactor
  \/ CorrectorSetIgnoreNearExpected
  \/ CorrectorSetIgnoreDrift
  \/ CorrectorProcess

SpecCorrector == CorrectorInit /\ [][CorrectorNext]_vars

\* C23: after each processed point the run length is the number of most
\* recent consecutive points whose returned grade is > 0: the run length
\* before the call plus 1 when the returned grade is > 0, and 0 otherwise
C23_RunLengthCountsPositiveOutputGrades ==
  last.op = "process" =>
    /\ PredictorCorrector_getRunLength(TRCF_getPredictorCorrector(det)) = streak.output
    /\ PredictorCorrector_getRunLength(TRCF_getPredictorCorrector(det))
         = IF FGt(last.results[1].anomalyGrade, 0)
           THEN PredictorCorrector_getRunLength(TRCF_getPredictorCorrector(last.before)) + 1
           ELSE 0

\* C23, amended: after each processed point the run length is the number of
\* most recent consecutive points for which the thresholder computed a grade
\* > 0, whatever the corrections made of it: the run length before the call
\* plus 1 when the thresholder's grade is > 0, and 0 otherwise
C23_RunLengthCountsThresholderGrades ==
  last.op = "process" =>
    /\ PredictorCorrector_getRunLength(TRCF_getPredictorCorrector(det)) = streak.thresholder
    /\ PredictorCorrector_getRunLength(TRCF_getPredictorCorrector(det))
         = IF FGt(ThresholderGrade(det, last.results[1]), 0)
           THEN PredictorCorrector_getRunLength(TRCF_getPredictorCorrector(last.before)) + 1
           ELSE 0

\* a second consecutive point graded by the thresholder and returned with
\* grade 0
C23_Witness ==
  /\ last.op = "process"
  /\ FGt(ThresholderGrade(det, last.results[1]), 0)
  /\ last.results[1].anomalyGrade = 0
  /\ PredictorCorrector_getRunLength(TRCF_getPredictorCorrector(last.before)) = 1
  /\ PredictorCorrector_getRunLength(TRCF_getPredictorCorrector(det)) = 2

----------------------------------------------------------------------------
(* Noise suppression, seen from the returned record *)

\* the actual value of dimension i lies inside its absolute band and its
\* ratio band around the expected value
InsideBand(pc, i, actual, expected) ==
  /\ FLe(FSub(actual, expected), pc.ignoreNearExpectedFromAbove[i])
  /\ FGe(FSub(actual, expected), 0 - pc.ignoreNearExpectedFromBelow[i])
  /\ FLe(PredictorCorrector_ratio(actual, expected),
         FAdd(Scale, pc.ignoreNearExpectedFromAboveByRatio[i]))
  /\ FGe(PredictorCorrector_ratio(actual, expected),
         FSub(Scale, pc.ignoreNearExpectedFromBelowByRatio[i]))

InsideBands(pc, record) ==
  \A i \in 1..Len(record.inputData) :
    InsideBand(pc, i, record.inputData[i], record.expectedRCFPoint[i])

\* the factor the drift correction applies to the record of the last call
DriftFactor(call, pc, record) ==
  IF pc.autoAdjust /\ ~pc.ignoreDrift /\ FGt(ThresholderGrade(det, record), 0)
  THEN PredictorCorrector_calculateDriftFactor(pc, record, call.before.lastAnomalyDescriptor)
  ELSE Scale

\* the grade the record carries when the noise factor was not applied
Unsuppressed(call, pc, record) ==
  FMul(ThresholderGrade(det, record), DriftFactor(call, pc, record))

NoiseApplied(call, pc, record) ==
  record.anomalyGrade # Unsuppressed(call, pc, record)

\* C24: the noise factor is applied to a point's grade only when auto-adjust
\* is on, the thresholder's grade is > 0, every dimension lies inside its
\* bands and fewer than 2 immediately preceding consecutive points had a
\* positive grade; from the third consecutive positive-grade point onward
\* it is never applied
C24_NoiseOnlyOnShortRunsInsideBands ==
  last.op = "process" =>
    /\ NoiseApplied(last, TRCF_getPredictorCorrector(det), last.results[1]) =>
         /\ TRCF_getPredictorCorrector(det).autoAdjust
         /\ FGt(ThresholderGrade(det, last.results[1]), 0)
         /\ InsideBands(TRCF_getPredictorCorrector(det), last.results[1])
         /\ streak.outputBefore < DEFAULT_RUN_ALLOWED
         /\ streak.thresholderBefore < DEFAULT_RUN_ALLOWED
    /\ (streak.output > DEFAULT_RUN_ALLOWED \/ streak.thresholder > DEFAULT_RUN_ALLOWED) =>
         ~NoiseApplied(last, TRCF_getPredictorCorrector(det), last.results[1])

\* a third consecutive graded point inside its bands, returned with the full
\* grade by a corrector whose noise factor is 0.5
C24_Witness ==
  /\ last.op = "process"
  /\ TRCF_getPredictorCorrector(det).autoAdjust
  /\ TRCF_getPredictorCorrector(det).noiseFactor = Dec(1, 2)
  /\ InsideBands(TRCF_getPredictorCorrector(det), last.results[1])
  /\ streak.outputBefore = DEFAULT_RUN_ALLOWED
  /\ streak.output = DEFAULT_RUN_ALLOWED + 1
  /\ FGt(last.results[1].anomalyGrade, 0)
  /\ ~NoiseApplied(last, TRCF_getPredictorCorrector(det), last.results[1])

----------------------------------------------------------------------------
(* The returned grade against the thresholder's grade *)

\* the dimensions calculateDriftFactor averages over: those whose previous
\* expected value is not 0
Drifting(pc, current, previous) ==
  {i \in 1..Min2(Min2(Len(current), Len(previous)), pc.baseDimension) : previous[i] # 0}

\* the relative drift of the expected value of dimension i
RelativeDrift(current, previous, i) ==
  FDiv(FAbs(FSub(current[i], previous[i])), FAbs(previous[i]))

\* the average relative drift is above 10%
AverageDriftLarge(pc, current, previous) ==
  /\ Drifting(pc, current, previous) # {}
  /\ FGt(FDiv(SumSeq(ArrayFrom([i \in 1..pc.baseDimension |->
                                  IF i \in Drifting(pc, current, previous)
                                  THEN RelativeDrift(current, previous, i) ELSE 0],
                               pc.baseDimension)),
              Cardinality(Drifting(pc, current, previous)) * Scale),
         Dec(1, 10))

\* C30: the grade of the returned record is at most the grade the
\* thresholder computed for the point's score; the noise factor lies in
\* [0, 1]; the drift factor lies in [0.5, 1] and is below 1 only when the
\* average relative drift is above 10%
C30_CorrectionsOnlyLowerTheGrade ==
  (last.op = "process" /\ ~last.threw) =>
    /\ FLe(last.results[1].anomalyGrade, ThresholderGrade(det, last.results[1]))
    /\ FGe(TRCF_getPredictorCorrector(det).noiseFactor, 0)
    /\ FLe(TRCF_getPredictorCorrector(det).noiseFactor, Scale)
    /\ FGe(DriftFactor(last, TRCF_getPredictorCorrector(det), last.results[1]), Dec(1, 2))
    /\ FLe(DriftFactor(last, TRCF_getPredictorCorrector(det), last.results[1]), Scale)
    /\ FLt(DriftFactor(last, TRCF_getPredictorCorrector(det), last.results[1]), Scale) =>
         AverageDriftLarge(TRCF_getPredictorCorrector(det),
                           last.results[1].expectedRCFPoint,
                           last.before.lastAnomalyDescriptor.expectedRCFPoint)

----------------------------------------------------------------------------
(* The shingled vector against the inputs of the calls *)

\* the last s of the input vectors `data`, oldest first, behind zeros where
\* fewer than s were given; every vector has length inputLength
LastInputs(data, s, inputLength) ==
  [k \in 1..(s * inputLength) |->
     IF Len(data) * inputLength - s * inputLength + k <= 0 THEN 0
     ELSE data[((Len(data) * inputLength - s * inputLength + k - 1) \div inputLength) + 1]
              [((Len(data) * inputLength - s * inputLength + k - 1) % inputLength) + 1]]

\* the shingled vector with its oldest slot dropped and `point` appended
Slid(shingled, point) ==
  SubSeq(shingled, Len(point) + 1, Len(shingled)) \o point

\* C25: the shingled vector of the last accepted point is the concatenation,
\* oldest first, of the last shingleSize inputs, with zeros where no point
\* has been seen; each call drops the oldest slot and appends the new input;
\* with shingleSize 1 it is the input vector
C25_ShingleIsLastInputsOldestFirst ==
  (last.op \in {"process", "processSequentially"} /\ ~last.threw) =>
    /\ last.before.totalUpdates = 0 =>
         det.preprocessor.lastShingledInput
           = LastInputs(last.data, det.preprocessor.shingleSize,
                        det.preprocessor.inputLength)
    /\ (last.before.totalUpdates > 0 /\ det.preprocessor.shingleSize > 1
          /\ Len(last.data) = 1) =>
         det.preprocessor.lastShingledInput
           = Slid(last.before.preprocessor.lastShingledInput, last.data[1])
    /\ det.preprocessor.shingleSize = 1 =>
         det.preprocessor.lastShingledInput = last.data[Len(last.data)]

----------------------------------------------------------------------------
(* A detector without a forest under each normalization window *)

MaxWindowCalls == 4

\* startNormalization and stopNormalization as configured; a stop of 0
\* stands for an absent option
WindowStarts == {0, 1, 2}

WindowStops == {0, 2, 3}

WindowConfigs ==
  {[TRCFConfig_empty EXCEPT !.dimensions = 1, !.shingleSize = 1, !.randomSeed = 42,
                            !.transformMethod = "NORMALIZE",
                            !.startNormalization = start,
                            !.stopNormalization = stop] :
     start \in WindowStarts, stop \in WindowStops}

WindowPoints == {<<One>>, <<Ten>>}

WindowInit ==
  /\ \E config \in WindowConfigs : det = TRCF_new(config, 777)
  /\ last = NoCall(det)
  /\ detB = Idle /\ lastB = Idle /\ rcf = Idle /\ rcfOut = Idle /\ th = Idle
  /\ thUpdates = 0
  /\ heap = Idle /\ blob = Idle /\ streak = Idle /\ rng = Idle
  /\ calls = 0

\* det.process(point, timestamp)
WindowProcess ==
  /\ calls < MaxWindowCalls
  /\ \E point \in WindowPoints :
       Called("process", <<point>>, <<calls + 1>>, TRUE, Null,
              TRCF_process(det, point, calls + 1, Null))
  /\ calls' = calls + 1
  /\ UNCHANGED <<detB, lastB, rcf, rcfOut, th, thUpdates, heap, blob, streak, rng>>

WindowNext == WindowProcess

SpecWindow == WindowInit /\ [][WindowNext]_vars

\* the number of values seen before the point of the last call lies in the
\* configured window
InWindow(call) ==
  /\ call.before.config.startNormalization <= call.before.preprocessor.valuesSeen
  /\ \/ call.before.config.stopNormalization = 0
     \/ call.before.preprocessor.valuesSeen < call.before.config.stopNormalization

\* the score of a detector without a forest: the mean absolute value of the
\* vector the forest would have received
ScoreOf(point) == TRCF_calculateSimplifiedScore(point)

\* C26: for every configured window [start, stop), start = 0 included, the
\* transform is applied to a point exactly when the number n of values seen
\* before it satisfies start <= n < stop; every other point is passed on
\* unchanged
C26_TransformExactlyInsideWindow ==
  (last.op = "process" /\ ~last.threw) =>
    last.results[1].anomalyScore
      = ScoreOf(IF InWindow(last)
                THEN Preprocessor_normalize(last.before.preprocessor, last.data[1])
                ELSE last.data[1])

----------------------------------------------------------------------------
(* JavaRandom.nextInt(bound) beside java.util.Random.nextInt(bound)        *)

MaxDraws == 3

\* Integer.MAX_VALUE, 2^31 - 1
MaxInt32 == (Pow2(30) - 1) + Pow2(30)

RECURSIVE IsPowerOfTwo(_)
\* (bound & -bound) === bound, for 0 < bound < 2^31
IsPowerOfTwo(bound) ==
  IF bound = 1 THEN TRUE
  ELSE IF bound % 2 = 1 THEN FALSE
  ELSE IsPowerOfTwo(bound \div 2)

\* Number((BigInt(bound) * BigInt(bits)) >> 31n) for bound a power of two:
\* the quotient of bits by 2^31 / bound
JavaRandom_scaled(bound, bits) ==
  IF bound = 1 THEN 0 ELSE bits \div (Pow2(30) \div (bound \div 2))

\* nextInt(bound), power of two, on the seed after the step
JavaRandom_nextIntPowerOfTwo(s, bound) ==
  CASE Computed(s) -> <<s, JavaRandom_scaled(bound, JavaRandom_bits(s, 31))>>

\* nextInt(bound), general case, on the seed after the step.  The loop test
\* `bits - val + (bound - 1) < 0` is evaluated on JavaScript numbers: with
\* bits >= val and bound >= 1 the sum is never negative and the loop body
\* runs once.
JavaRandom_nextIntGeneral(s, bound) ==
  CASE Computed(s) -> <<s, JavaRandom_bits(s, 31) % bound>>

\* nextInt(bound), bound > 0: <<the seed afterwards, the value>>
JavaRandom_nextInt(s, bound) ==
  IF IsPowerOfTwo(bound)
  THEN JavaRandom_nextIntPowerOfTwo(JavaRandom_step(s), bound)
  ELSE JavaRandom_nextIntGeneral(JavaRandom_step(s), bound)

\* u - r + (bound - 1) overflows a signed 32-bit integer, which makes it
\* negative
Int32Overflows(u, r, bound) == u - r > (MaxInt32 - bound) + 1

RECURSIVE Reference_nextIntGeneral(_, _)
\* java.util.Random.nextInt(bound), general case, on the seed after the step:
\* for (int u = r; u - (r = u % bound) + m < 0; u = next(31))
Reference_nextIntGeneral(s, bound) ==
  CASE Computed(s) ->
  IF Int32Overflows(JavaRandom_bits(s, 31), JavaRandom_bits(s, 31) % bound, bound)
  THEN Reference_nextIntGeneral(JavaRandom_step(s), bound)
  ELSE <<s, JavaRandom_bits(s, 31) % bound>>

\* java.util.Random.nextInt(bound): <<the seed afterwards, the value>>
Reference_nextInt(s, bound) ==
  IF IsPowerOfTwo(bound)
  THEN JavaRandom_nextIntPowerOfTwo(JavaRandom_step(s), bound)
  ELSE Reference_nextIntGeneral(JavaRandom_step(s), bound)

RandomSeeds == {0, 42, 0 - 6, 123456}

\* powers of two, small bounds, and bounds above 2^30
RandomBounds == {1, 2, 8, 3, 10, 1000, Pow2(30), Pow2(30) + 1, MaxInt32}

RandomInit ==
  /\ \E seed \in RandomSeeds :
       rng = [seed |-> JavaRandom_setSeed(seed), reference |-> JavaRandom_setSeed(seed),
              bound |-> 0, value |-> 0, expected |-> 0, draws |-> 0]
  /\ det = Idle /\ last = Idle /\ detB = Idle /\ lastB = Idle
  /\ rcf = Idle /\ rcfOut = Idle /\ th = Idle
  /\ thUpdates = 0
  /\ heap = Idle /\ blob = Idle /\ streak = Idle
  /\ calls = 0

\* the generator and the reference after nextInt(bound) on both
Random_drawn(r, bound, drawn, expected) ==
  CASE Computed(<<drawn, expected>>) ->
  [seed |-> drawn[1], reference |-> expected[1], bound |-> bound, value |-> drawn[2],
   expected |-> expected[2], draws |-> r.draws + 1]

\* random.nextInt(bound)
RandomNextInt ==
  /\ rng.draws < MaxDraws
  /\ \E bound \in RandomBounds :
       rng' = Random_drawn(rng, bound, JavaRandom_nextInt(rng.seed, bound),
                           Reference_nextInt(rng.reference, bound))
  /\ UNCHANGED <<det, last, detB, lastB, rcf, rcfOut, th, thUpdates, calls, heap, blob,
                 streak>>

RandomNext == RandomNextInt

SpecRandom == RandomInit /\ [][RandomNext]_vars

\* C27: for every seed and every positive bound nextInt(bound) returns a
\* value in [0, bound), the value java.util.Random returns at the same place
\* of the sequence, rejection step included, and the seed stays within 48
\* bits
C27_NextIntMatchesReference ==
  rng.draws > 0 =>
    /\ rng.value >= 0 /\ rng.value < rng.bound
    /\ rng.value = rng.expected
    /\ rng.seed = rng.reference
    /\ rng.seed[1] >= 0 /\ rng.seed[1] < Half
    /\ rng.seed[2] >= 0 /\ rng.seed[2] < Half

\* ---------------------------------------------------------------------
\* StateSerializer.serialize and deserialize, and the round trips
\* ---------------------------------------------------------------------

\* serialize(state, compress): the compact form as text, gzipped on request
StateSerializer_serialize(state, compress) ==
  [compressed |-> compress,
   data |-> IF compress
            THEN Zlib_gzipSync(JSON_stringify(StateSerializer_toCompactFormat(state)))
            ELSE JSON_stringify(StateSerializer_toCompactFormat(state))]

\* deserialize, JSON.parse of the buffer and fromCompactFormat
StateSerializer_parsed(buffer) ==
  IF ~JSON_wellFormed(buffer) THEN Restore_threw("SyntaxError", FALSE)
  ELSE Restore_returned(StateSerializer_fromCompactFormat(JSON_parse(buffer)))

\* deserialize(serialized)
StateSerializer_deserialize(serialized) ==
  IF serialized.compressed THEN StateSerializer_decompressed(serialized.data)
  ELSE StateSerializer_parsed(serialized.data)

\* a score window one longer than the serializer keeps
LongScores == [i \in 1..(RECENT_SCORES_KEPT + 1) |-> i % 7]

\* the states serialized: a threshold and the scores may hold NaN, the score
\* ThresholdedRandomCutForest gives its first point over SimplifiedRCF
SerializerStates ==
  {[config |-> [dimensions |-> d], forest |-> [totalUpdates |-> u],
    threshold |-> [currentThreshold |-> ct, recentScores |-> rs]] :
     d \in {1, 2}, u \in {0, 3}, ct \in {5, NaN},
     rs \in {<<>>, <<9>>, <<9, 0>>, <<NaN, 9>>, LongScores}}

\* const state = ...; nothing serialized yet
SerializeInit ==
  /\ \E state \in SerializerStates :
       blob = [state |-> state, op |-> "none", compress |-> FALSE, result |-> NotRestored]
  /\ det = Idle /\ last = Idle /\ detB = Idle /\ lastB = Idle
  /\ rcf = Idle /\ rcfOut = Idle /\ th = Idle /\ thUpdates = 0 /\ calls = 0
  /\ heap = Idle /\ streak = Idle /\ rng = Idle

\* StateSerializer.deserialize(StateSerializer.serialize(state, compress))
SerializeRoundTrip ==
  /\ \E compress \in BOOLEAN :
       blob' = [state |-> blob.state, op |-> "deserialize", compress |-> compress,
                result |-> StateSerializer_deserialize(
                             StateSerializer_serialize(blob.state, compress))]
  /\ UNCHANGED CheckpointUnused

\* StateSerializer.restoreCheckpoint(StateSerializer.checkpoint(state))
SerializeCheckpointRoundTrip ==
  /\ blob' = [state |-> blob.state, op |-> "restoreCheckpoint", compress |-> TRUE,
              result |-> StateSerializer_restoreCheckpoint(
                           StateSerializer_checkpoint(blob.state))]
  /\ UNCHANGED CheckpointUnused

SerializeNext == SerializeRoundTrip \/ SerializeCheckpointRoundTrip

SpecSerialize == SerializeInit /\ [][SerializeNext]_vars

\* the state a round trip is to return: the state itself, its score window
\* cut to the last entries kept
RoundTripExpected(state) ==
  [state EXCEPT !.threshold.recentScores = SliceLast(@, RECENT_SCORES_KEPT)]

\* C28: deserialize(serialize(s, compress)), for both values of compress,
\* and restoreCheckpoint(checkpoint(s)) return a state equal to s field by
\* field, except that the recent scores are cut to their last 100 entries
C28_RoundTripReturnsState ==
  blob.op # "none"
    => /\ ~blob.result.threw
       /\ blob.result.state = RoundTripExpected(blob.state)

\* ---------------------------------------------------------------------
\* The cuts of a SimplifiedRCF tree
\* ---------------------------------------------------------------------

RECURSIVE RandomCutTree_pointsUnder(_)
\* the points stored at the leaves under a node
RandomCutTree_pointsUnder(node) ==
  IF node.mass = 0 THEN <<>>
  ELSE IF node.isLeaf THEN <<node.point>>
  ELSE RandomCutTree_pointsUnder(node.left) \o RandomCutTree_pointsUnder(node.right)

\* an internal node's cut has the points under its left child at or below
\* the cut value and the points under its right child above it
RandomCutTree_cutSeparates(node, leftPoints, rightPoints) ==
  /\ \A k \in 1..Len(leftPoints) :
       FLe(At(leftPoints[k], node.cutDimension + 1), node.cutValue)
  /\ \A k \in 1..Len(rightPoints) :
       FGt(At(rightPoints[k], node.cutDimension + 1), node.cutValue)

RECURSIVE RandomCutTree_separated(_)
\* every internal node under a node separates its points by its cut
RandomCutTree_separated(node) ==
  IF node.mass = 0 \/ node.isLeaf THEN TRUE
  ELSE /\ RandomCutTree_cutSeparates(node, RandomCutTree_pointsUnder(node.left),
                                     RandomCutTree_pointsUnder(node.right))
       /\ RandomCutTree_separated(node.left)
       /\ RandomCutTree_separated(node.right)

RECURSIVE RandomCutTree_leafReached(_, _)
\* the pointIndex of the leaf at which the walk of getIsolationDepth ends
RandomCutTree_leafReached(node, point) ==
  IF node.isLeaf THEN node.pointIndex
  ELSE IF FLe(At(point, node.cutDimension + 1), node.cutValue)
       THEN RandomCutTree_leafReached(node.left, point)
       ELSE RandomCutTree_leafReached(node.right, point)

\* C29: in every tree of SimplifiedRCF every internal node separates its
\* points by its cut (left at or below the cut value, right above it), and
\* the isolation-depth walk for a stored point ends at that point's own leaf
C29_CutsSeparatePoints ==
  rcf.kind = "SimplifiedRCF"
    => \A i \in 1..rcf.numberOfTrees :
         /\ RandomCutTree_separated(rcf.trees[i].root)
         /\ \A k \in 1..Len(rcf.trees[i].points) :
              RandomCutTree_leafReached(rcf.trees[i].root, rcf.trees[i].points[k]) = k - 1

====
